---- MODULE Spec2Model ----
(***************************************************************************)
(* Verification model of the scrape-web backend: the URL canonicalizer     *)
(* (normalize_url), the crawl frontiers (AdvancedScraper, PythonScraper),  *)
(* the strategy aggregator (extract_links_hybrid) and the same-origin      *)
(* filters of the link-extraction strategies.                              *)
(*                                                                         *)
(* A Python str is modelled as a sequence of one-character strings, so     *)
(* that parsing, slicing and re-encoding are computed, not assumed.        *)
(***************************************************************************)
EXTENDS Integers, Sequences, FiniteSets, TLC

(***************************************************************************)
(* Python str primitives.                                                  *)
(***************************************************************************)

\* the value of F with its argument bound to v, computed once
With(v, F(_)) ==
    CHOOSE r \in {F(x) : x \in {v}} : TRUE

\* s[i:] with a 0-based Python index i
From(s, i) ==
    SubSeq(s, i + 1, Len(s))

\* s[:i] with a 0-based Python index i
Upto(s, i) ==
    SubSeq(s, 1, IF i < Len(s) THEN i ELSE Len(s))

\* c in s, for a single character c
HasChar(s, c) ==
    \E i \in 1..Len(s) : s[i] = c

\* s.find(c, start) for a single character c; 0-based, -1 when absent
Find(s, c, start) ==
    With({i \in (start + 1)..Len(s) : s[i] = c}, LAMBDA I :
        IF I = {} THEN -1 ELSE (CHOOSE i \in I : \A j \in I : i <= j) - 1)

\* s.rfind(c) for a single character c; 0-based, -1 when absent
RFind(s, c) ==
    With({i \in 1..Len(s) : s[i] = c}, LAMBDA I :
        IF I = {} THEN -1 ELSE (CHOOSE i \in I : \A j \in I : i >= j) - 1)

\* s.startswith(p)
StartsWith(s, p) ==
    Len(p) <= Len(s) /\ SubSeq(s, 1, Len(p)) = p

\* s.endswith(p)
EndsWith(s, p) ==
    Len(p) <= Len(s) /\ SubSeq(s, Len(s) - Len(p) + 1, Len(s)) = p

\* p in s, for a substring p
Contains(s, p) ==
    \E i \in 1..(Len(s) - Len(p) + 1) : SubSeq(s, i, i + Len(p) - 1) = p

RECURSIVE RStrip(_, _)
\* s.rstrip(c): every trailing c is removed
RStrip(s, c) ==
    IF Len(s) > 0 /\ s[Len(s)] = c THEN RStrip(SubSeq(s, 1, Len(s) - 1), c) ELSE s

RECURSIVE Replace(_, _, _)
\* s.replace(old, new): every non-overlapping occurrence, left to right
Replace(s, old, new) ==
    IF Len(s) = 0 THEN <<>>
    ELSE IF StartsWith(s, old) THEN new \o Replace(From(s, Len(old)), old, new)
    ELSE <<s[1]>> \o Replace(Tail(s), old, new)

RECURSIVE Split(_, _)
\* s.split(c): the list of pieces between the occurrences of c
Split(s, c) ==
    With(Find(s, c, 0), LAMBDA i :
        IF i < 0 THEN <<s>> ELSE <<Upto(s, i)>> \o Split(From(s, i + 1), c))

\* s.split(c, 1)
Split1(s, c) ==
    With(Find(s, c, 0), LAMBDA i :
        IF i < 0 THEN <<s>> ELSE <<Upto(s, i), From(s, i + 1)>>)

RECURSIVE Join(_, _)
\* sep.join(parts)
Join(parts, sep) ==
    IF Len(parts) = 0 THEN <<>>
    ELSE IF Len(parts) = 1 THEN parts[1]
    ELSE parts[1] \o sep \o Join(Tail(parts), sep)

UpperCase ==
    << "A", "B", "C", "D", "E", "F", "G", "H", "I", "J", "K", "L", "M",
       "N", "O", "P", "Q", "R", "S", "T", "U", "V", "W", "X", "Y", "Z" >>

LowerCase ==
    << "a", "b", "c", "d", "e", "f", "g", "h", "i", "j", "k", "l", "m",
       "n", "o", "p", "q", "r", "s", "t", "u", "v", "w", "x", "y", "z" >>

Digits ==
    << "0", "1", "2", "3", "4", "5", "6", "7", "8", "9" >>

Range(f) ==
    {f[i] : i \in DOMAIN f}

\* the lower-case letter of every upper-case letter
lower_of ==
    [c \in Range(UpperCase) |-> LowerCase[CHOOSE k \in 1..26 : UpperCase[k] = c]]

\* str.isalpha on an ASCII character
ascii_letters ==
    Range(UpperCase) \cup Range(LowerCase)

\* s.lower()
Lower(s) ==
    [i \in 1..Len(s) |-> IF s[i] \in DOMAIN lower_of THEN lower_of[s[i]] ELSE s[i]]

\* the characters of code 32..126, in code order (the grave accent, code 96,
\* has no string literal and is written GRAVE)
Printable ==
    << " ", "!", "\"", "#", "$", "%", "&", "'", "(", ")", "*", "+", ",", "-", ".", "/",
       "0", "1", "2", "3", "4", "5", "6", "7", "8", "9", ":", ";", "<", "=", ">", "?",
       "@", "A", "B", "C", "D", "E", "F", "G", "H", "I", "J", "K", "L", "M", "N", "O",
       "P", "Q", "R", "S", "T", "U", "V", "W", "X", "Y", "Z", "[", "\\", "]", "^", "_",
       "GRAVE", "a", "b", "c", "d", "e", "f", "g", "h", "i", "j", "k", "l", "m", "n", "o",
       "p", "q", "r", "s", "t", "u", "v", "w", "x", "y", "z", "{", "|", "}", "~" >>

\* ord(c) for a printable ASCII character
Ord(c) ==
    31 + (CHOOSE k \in 1..95 : Printable[k] = c)

HexUpper ==
    << "0", "1", "2", "3", "4", "5", "6", "7", "8", "9", "A", "B", "C", "D", "E", "F" >>

HexLower ==
    << "0", "1", "2", "3", "4", "5", "6", "7", "8", "9", "a", "b", "c", "d", "e", "f" >>

IsHex(c) ==
    \E k \in 1..16 : HexUpper[k] = c \/ HexLower[k] = c

HexVal(c) ==
    (CHOOSE k \in 1..16 : HexUpper[k] = c \/ HexLower[k] = c) - 1

RECURSIVE unquote(_)
\* urllib.parse.unquote: %XX is decoded when XX are two hex digits, a percent
\* sign not followed by two hex digits is kept.  Escapes outside 32..126 (control
\* and non-ASCII bytes) do not occur in the inputs of this model and are kept.
unquote(s) ==
    IF Len(s) = 0 THEN <<>>
    ELSE IF /\ s[1] = "%"
            /\ Len(s) >= 3
            /\ IsHex(s[2])
            /\ IsHex(s[3])
            /\ 16 * HexVal(s[2]) + HexVal(s[3]) \in 32..126
         THEN <<Printable[16 * HexVal(s[2]) + HexVal(s[3]) - 31]>> \o unquote(From(s, 3))
         ELSE <<s[1]>> \o unquote(Tail(s))

\* urllib.parse._ALWAYS_SAFE
ALWAYS_SAFE ==
    Range(UpperCase) \cup Range(LowerCase) \cup Range(Digits) \cup {"_", ".", "-", "~"}

RECURSIVE quote_plus(_)
\* urllib.parse.quote_plus with empty safe: a space becomes a plus, unreserved
\* characters are kept, every other character becomes %XX (upper-case hex)
quote_plus(s) ==
    IF Len(s) = 0 THEN <<>>
    ELSE (IF s[1] = " " THEN <<"+">>
          ELSE IF s[1] \in ALWAYS_SAFE THEN <<s[1]>>
          ELSE <<"%", HexUpper[(Ord(s[1]) \div 16) + 1], HexUpper[(Ord(s[1]) % 16) + 1]>>)
         \o quote_plus(Tail(s))

(***************************************************************************)
(* urllib.parse: urlsplit, urlparse, urlunparse, parse_qs, urlencode.      *)
(***************************************************************************)

\* urllib.parse.scheme_chars
scheme_chars ==
    Range(UpperCase) \cup Range(LowerCase) \cup Range(Digits) \cup {"+", "-", "."}

S_http ==
    <<"h", "t", "t", "p">>

S_https ==
    <<"h", "t", "t", "p", "s">>

\* the members of urllib.parse.uses_params that the inputs can carry
uses_params ==
    {<<>>, S_http, S_https}

\* the members of urllib.parse.uses_netloc that the inputs can carry
uses_netloc ==
    {<<>>, S_http, S_https}

\* the members of urllib.parse.uses_relative that the inputs can carry
uses_relative ==
    {<<>>, S_http, S_https}

\* urllib.parse._splitnetloc(url, 2): <<netloc, rest>>
_splitnetloc(u) ==
    With({Find(u, c, 2) : c \in {"/", "?", "#"}} \ {-1}, LAMBDA D :
    With(IF D = {} THEN Len(u) ELSE CHOOSE d \in D : \A e \in D : d <= e, LAMBDA delim :
        <<SubSeq(u, 3, delim), From(u, delim)>>))

\* urllib.parse.urlsplit(url, scheme): scheme is the default when url has none
urlsplit(u, default) ==
    With(Find(u, ":", 0), LAMBDA i :
    With(/\ i > 0
         /\ u[1] \in ascii_letters
         /\ \A k \in 1..i : u[k] \in scheme_chars, LAMBDA hasScheme :
    With(IF hasScheme THEN From(u, i + 1) ELSE u, LAMBDA u1 :
    With(IF StartsWith(u1, <<"/", "/">>) THEN _splitnetloc(u1) ELSE <<<<>>, u1>>, LAMBDA n :
    With(Split1(n[2], "#"), LAMBDA f :
    With(Split1(f[1], "?"), LAMBDA q :
        [scheme |-> IF hasScheme THEN Lower(Upto(u, i)) ELSE default,
         netloc |-> n[1],
         path |-> q[1],
         query |-> IF Len(q) = 2 THEN q[2] ELSE <<>>,
         fragment |-> IF Len(f) = 2 THEN f[2] ELSE <<>>]))))))

\* urllib.parse._splitparams: <<path, params>>
_splitparams(u) ==
    With(IF HasChar(u, "/") THEN Find(u, ";", RFind(u, "/")) ELSE Find(u, ";", 0), LAMBDA i :
        IF i < 0 THEN <<u, <<>>>> ELSE <<Upto(u, i), From(u, i + 1)>>)

\* urllib.parse.urlparse(url, scheme)
urlparse_scheme(u, default) ==
    With(urlsplit(u, default), LAMBDA s :
    With(IF s.scheme \in uses_params /\ HasChar(s.path, ";")
         THEN _splitparams(s.path) ELSE <<s.path, <<>>>>, LAMBDA p :
        [scheme |-> s.scheme, netloc |-> s.netloc, path |-> p[1], params |-> p[2],
         query |-> s.query, fragment |-> s.fragment]))

\* urllib.parse.urlparse(url)
urlparse(u) ==
    urlparse_scheme(u, <<>>)

\* urllib.parse.urlunsplit
urlunsplit(scheme, netloc, path, query, fragment) ==
    (IF Len(scheme) > 0 THEN scheme \o <<":">> ELSE <<>>)
    \o (IF \/ Len(netloc) > 0
           \/ (Len(scheme) > 0 /\ scheme \in uses_netloc /\ Upto(path, 2) # <<"/", "/">>)
        THEN <<"/", "/">> \o netloc
             \o (IF Len(path) > 0 /\ path[1] # "/" THEN <<"/">> ELSE <<>>) \o path
        ELSE path)
    \o (IF Len(query) > 0 THEN <<"?">> \o query ELSE <<>>)
    \o (IF Len(fragment) > 0 THEN <<"#">> \o fragment ELSE <<>>)

\* urllib.parse.urlunparse
urlunparse(scheme, netloc, path, params, query, fragment) ==
    urlunsplit(scheme, netloc,
               IF Len(params) > 0 THEN path \o <<";">> \o params ELSE path,
               query, fragment)

RECURSIVE resolve_segments(_, _)
\* the dot-segment loop of urllib.parse.urljoin
resolve_segments(segments, resolved_path) ==
    IF Len(segments) = 0 THEN resolved_path
    ELSE resolve_segments(Tail(segments),
             IF segments[1] = <<".", ".">>
             THEN Upto(resolved_path, Len(resolved_path) - 1)
             ELSE IF segments[1] = <<".">> THEN resolved_path
             ELSE Append(resolved_path, segments[1]))

\* the path computed by urllib.parse.urljoin from the path of the base and
\* the path of the reference
joined_path(base_path, ref_path) ==
    With(Split(base_path, "/"), LAMBDA bp :
    With((IF bp[Len(bp)] # <<>> THEN Upto(bp, Len(bp) - 1) ELSE bp)
         \o Split(ref_path, "/"), LAMBDA joined :
    With(IF StartsWith(ref_path, <<"/">>) THEN Split(ref_path, "/")
         ELSE IF Len(joined) <= 2 THEN joined
         ELSE <<joined[1]>>
              \o SelectSeq(SubSeq(joined, 2, Len(joined) - 1), LAMBDA x : Len(x) > 0)
              \o <<joined[Len(joined)]>>, LAMBDA segments :
    With(resolve_segments(segments, <<>>), LAMBDA resolved :
    With(Join(IF segments[Len(segments)] \in {<<".">>, <<".", ".">>}
              THEN Append(resolved, <<>>) ELSE resolved, <<"/">>), LAMBDA path :
        IF Len(path) > 0 THEN path ELSE <<"/">>)))))

\* urllib.parse.urljoin(base, url)
urljoin(base, u) ==
    IF Len(base) = 0 THEN u
    ELSE IF Len(u) = 0 THEN base
    ELSE
    With(urlparse(base), LAMBDA b :
    With(urlparse_scheme(u, b.scheme), LAMBDA p :
        IF p.scheme # b.scheme \/ p.scheme \notin uses_relative THEN u
        ELSE IF p.scheme \in uses_netloc /\ Len(p.netloc) > 0
        THEN urlunparse(p.scheme, p.netloc, p.path, p.params, p.query, p.fragment)
        ELSE IF Len(p.path) = 0 /\ Len(p.params) = 0
        THEN urlunparse(p.scheme, b.netloc, b.path, b.params,
                        IF Len(p.query) = 0 THEN b.query ELSE p.query, p.fragment)
        ELSE urlunparse(p.scheme, b.netloc, joined_path(b.path, p.path),
                        p.params, p.query, p.fragment)))

RECURSIVE parse_qsl_fields(_)
\* the loop of urllib.parse.parse_qsl(qs, keep_blank_values=True) over the
\* ampersand-separated fields: a sequence of <<name, value>>
parse_qsl_fields(fields) ==
    IF Len(fields) = 0 THEN <<>>
    ELSE With(Split1(fields[1], "="), LAMBDA nv :
             (IF Len(fields[1]) = 0 THEN <<>>
              ELSE << <<unquote(Replace(nv[1], <<"+">>, <<" ">>)),
                        IF Len(nv) = 2 THEN unquote(Replace(nv[2], <<"+">>, <<" ">>))
                        ELSE <<>> >> >>)
             \o parse_qsl_fields(Tail(fields)))

parse_qsl(qs) ==
    IF Len(qs) = 0 THEN <<>> ELSE parse_qsl_fields(Split(qs, "&"))

RECURSIVE parse_qs_group(_, _)
\* the grouping loop of urllib.parse.parse_qs: a dict in insertion order,
\* modelled as a sequence of <<name, list of values>> with distinct names
parse_qs_group(pairs, dict) ==
    IF Len(pairs) = 0 THEN dict
    ELSE parse_qs_group(Tail(pairs),
             IF \E k \in 1..Len(dict) : dict[k][1] = pairs[1][1]
             THEN [k \in 1..Len(dict) |->
                      IF dict[k][1] = pairs[1][1]
                      THEN <<dict[k][1], Append(dict[k][2], pairs[1][2])>>
                      ELSE dict[k]]
             ELSE Append(dict, <<pairs[1][1], <<pairs[1][2]>>>>))

\* urllib.parse.parse_qs(qs, keep_blank_values=True)
parse_qs(qs) ==
    parse_qs_group(parse_qsl(qs), <<>>)

RECURSIVE urlencode_items(_)
\* the doseq loop of urllib.parse.urlencode: the list of k=v strings
urlencode_items(dict) ==
    IF Len(dict) = 0 THEN <<>>
    ELSE [j \in 1..Len(dict[1][2]) |->
             quote_plus(dict[1][1]) \o <<"=">> \o quote_plus(dict[1][2][j])]
         \o urlencode_items(Tail(dict))

\* urllib.parse.urlencode(query, doseq=True)
urlencode(dict) ==
    Join(urlencode_items(dict), <<"&">>)

(***************************************************************************)
(* scraper.normalize_url (repeated verbatim in scraper_hybrid.py and       *)
(* scraper_playwright.py).                                                 *)
(***************************************************************************)

tracking_params ==
    { <<"u", "t", "m", "_", "s", "o", "u", "r", "c", "e">>,
      <<"u", "t", "m", "_", "m", "e", "d", "i", "u", "m">>,
      <<"u", "t", "m", "_", "c", "a", "m", "p", "a", "i", "g", "n">>,
      <<"u", "t", "m", "_", "t", "e", "r", "m">>,
      <<"u", "t", "m", "_", "c", "o", "n", "t", "e", "n", "t">>,
      <<"u", "t", "m", "_", "i", "d">>,
      <<"u", "t", "m", "_", "c", "i", "d">>,
      <<"u", "t", "m", "_", "r", "e", "a", "d", "e", "r">>,
      <<"u", "t", "m", "_", "r", "e", "f", "e", "r", "r", "e", "r">>,
      <<"u", "t", "m", "_", "n", "a", "m", "e">>,
      <<"u", "t", "m", "_", "s", "o", "c", "i", "a", "l">>,
      <<"u", "t", "m", "_", "s", "o", "c", "i", "a", "l", "-", "t", "y", "p", "e">>,
      <<"u", "t", "m", "_", "b", "r", "a", "n", "d">>,
      <<"u", "t", "m", "_", "p", "u", "b", "r", "e", "f", "e", "r", "r", "e", "r">>,
      <<"f", "b", "c", "l", "i", "d">>,
      <<"g", "c", "l", "i", "d">>,
      <<"d", "c", "l", "i", "d">>,
      <<"m", "s", "c", "l", "k", "i", "d">>,
      <<"r", "e", "f">>,
      <<"r", "e", "f", "e", "r", "r", "e", "r">>,
      <<"s", "o", "u", "r", "c", "e">>,
      <<"c", "a", "m", "p", "a", "i", "g", "n">>,
      <<"m", "c", "_", "c", "i", "d">>,
      <<"m", "c", "_", "e", "i", "d">>,
      <<"y", "c", "l", "i", "d">>,
      <<"_", "g", "a">>,
      <<"_", "g", "i", "d">>,
      <<"a", "f", "f", "i", "l", "i", "a", "t", "e">>,
      <<"a", "f", "f", "i", "l", "i", "a", "t", "e", "C", "o", "d", "e">>,
      <<"a", "m", "p">>,
      <<"a", "m", "p", ";">> }

\* {p.lower() for p in tracking_params}
tracking_lower ==
    {Lower(p) : p \in tracking_params}

\* the dict comprehension keeping the non-tracking keys
filtered_params(query_params) ==
    SelectSeq(query_params, LAMBDA kv : Lower(kv[1]) \notin tracking_lower)

\* path normalisation: trailing slashes removed unless the path is the root
normalize_path(path) ==
    IF path # <<"/">> /\ EndsWith(path, <<"/">>) THEN RStrip(path, "/") ELSE path

normalize_url(u) ==
    With(urlparse(u), LAMBDA parsed :
        urlunparse(parsed.scheme, parsed.netloc, normalize_path(parsed.path),
                   parsed.params,
                   urlencode(filtered_params(parse_qs(parsed.query))),
                   <<>>))

(***************************************************************************)
(* Inputs of normalize_url: URLs written as text from a path, a list of    *)
(* raw query fields and a fragment, under the origin https://x.com.        *)
(***************************************************************************)

\* the longest list of query fields of an input URL
MaxFields == 3

NormOrigin ==
    S_https \o <<":", "/", "/", "x", ".", "c", "o", "m">>

NormPaths ==
    { <<>>,
      <<"/">>,
      <<"/", "a">>,
      <<"/", "a", "/">>,
      <<"/", "a", "/", "/">>,
      <<"/", "a", ";", "p">>,
      <<"/", "a", "/", ";", "p">>,
      <<"/", "a", "/", ";", "p", "/">> }

NormFields ==
    { <<"i", "d", "=", "5">>,
      <<"u", "t", "m", "_", "s", "o", "u", "r", "c", "e", "=", "f", "o", "o">>,
      <<"i", "d", "=", "7">>,
      <<"q">>,
      <<"R", "e", "f", "=", "1">>,
      <<"t", "=", "a", "+", "b">>,
      <<"t", "=", "1", ",", "2">>,
      <<"b", "=">> }

\* query fields whose key is on the deny-list
TrackingFields ==
    { <<"u", "t", "m", "_", "s", "o", "u", "r", "c", "e", "=", "x">>,
      <<"R", "e", "f", "=", "1">> }

NormFragments ==
    { <<>>, <<"f", "r", "a", "g">> }

RECURSIVE FieldLists(_)
\* the lists of at most n query fields
FieldLists(n) ==
    IF n = 0 THEN { <<>> }
    ELSE FieldLists(n - 1) \cup
         { Append(l, f) : l \in { m \in FieldLists(n - 1) : Len(m) = n - 1 }, f \in NormFields }

NormParts ==
    [path : NormPaths, fields : FieldLists(MaxFields), fragment : NormFragments]

\* the text of the URL with the given parts
Compose(p) ==
    NormOrigin \o p.path
    \o (IF Len(p.fields) > 0 THEN <<"?">> \o Join(p.fields, <<"&">>) ELSE <<>>)
    \o (IF Len(p.fragment) > 0 THEN <<"#">> \o p.fragment ELSE <<>>)

\* the lists obtained from fields by inserting one tracking field anywhere
WithTracking(fields) ==
    { SubSeq(fields, 1, i) \o <<f>> \o SubSeq(fields, i + 1, Len(fields)) :
          i \in 0..Len(fields), f \in TrackingFields }

\* the URLs that differ from the one with parts p only in what canonicalization
\* removes: the fragment, tracking fields, one trailing slash on a non-root path
Variants(p) ==
    { Compose([path |-> q, fields |-> fl, fragment |-> fr]) :
          q \in {p.path} \cup (IF p.path \in {<<>>, <<"/">>} THEN {} ELSE {p.path \o <<"/">>}),
          fl \in {p.fields} \cup WithTracking(p.fields),
          fr \in NormFragments }

(***************************************************************************)
(* State.  One group of variables per component; a specification that does *)
(* not exercise a component keeps its group at the idle value.             *)
(***************************************************************************)
VARIABLES
    \* normalize_url
    npc,                 \* "idle", "input", "normalized", "renormalized", "compared"
    parts,               \* the parts the input URL was written from
    url,                 \* the argument of normalize_url
    normalized,          \* normalize_url(url)
    renormalized,        \* normalize_url(normalized)
    variant,             \* a URL differing from url only in removed parts
    variant_normalized,  \* normalize_url(variant)
    \* AdvancedScraper / PythonScraper sessions
    scraper,             \* "none", "advanced", "python"
    cpc,                 \* position of the coordinating flow
    base_url,            \* self.base_url
    max_depth,           \* self.max_depth
    visited_urls,        \* self.visited_urls
    discovered_urls,     \* self.discovered_urls (AdvancedScraper only)
    downloaded_files,    \* self.downloaded_files
    current_depth,       \* loop variable of scrape_recursive
    urls_at_depth,       \* the list built at the head of the loop body, as a set
    tasks,               \* the coroutines handed to asyncio.gather: url -> position
    stack,               \* the active download_file calls of PythonScraper
    fetch_log,           \* history: the session.get calls issued, with their depth
    surplus,             \* history: URLs left out of a batch by the cap, with the depth
    served,              \* history: url -> the markup whose links were extracted
    selected,            \* history: the URLs put in a batch, with the depth
    failed,              \* history: the fetches that ended in an error result
    \* extract_links_hybrid
    hpc,                 \* position in extract_links_hybrid
    static_result,       \* the dict returned by extract_static_links
    nextjs_result,       \* the dict returned by extract_nextjs_data
    dynamic_result,      \* the dict returned by extract_dynamic_links
    all_links,           \* the set all_links
    methods_used,        \* the list methods_used
    errors,              \* the list errors
    call_log,            \* history: the strategies invoked, in order
    hybrid_result,       \* the dict returned by extract_links_hybrid
    \* one call of a link-extraction strategy
    spc,                 \* position in the strategy
    strategy,            \* the function called
    target_url,          \* its url argument
    strategy_links,      \* the set of links it builds and returns
    pw_discovered_urls,  \* discovered_urls of extract_links_with_playwright
    same_domain_tests,   \* history: the links put to the same-domain test, with its verdict
    \* the endpoint extract_links_cached and extract_links_from_bundle
    site_page,           \* what the browser finds on the pages of the sites
    cache_files,         \* hostname -> the content of OUTPUT_DIR/hostname/links.json
    requests,            \* the requests received: url, position, response
    extractor_calls,     \* history: the calls of extract_links_from_bundle
    \* one walk over a parsed JSON document
    wpc,                 \* position of the walk
    walker,              \* the function that walks
    json_data,           \* the document
    calls,               \* the calls that are still to run, the running one first
    walk_links,          \* the set links
    walked,              \* history: the calls that passed the depth test
    \* one probing loop of a runtime strategy
    ppc,                 \* position in the loop
    prober,              \* the strategy that probes
    elements_found,      \* the number of elements the locator returned
    page_url,            \* page.url
    click_before_url,    \* before_url: page.url before the last click
    probe_index,         \* the number of elements the loop is done with
    click_log            \* history: the clicks, each with page.url when it was issued

norm_vars ==
    <<npc, parts, url, normalized, renormalized, variant, variant_normalized>>

crawl_vars ==
    <<scraper, cpc, base_url, max_depth, visited_urls, discovered_urls, downloaded_files,
      current_depth, urls_at_depth, tasks, stack, fetch_log, surplus, served, selected,
      failed>>

hybrid_vars ==
    <<hpc, static_result, nextjs_result, dynamic_result, all_links, methods_used, errors,
      call_log, hybrid_result>>

strategy_vars ==
    <<spc, strategy, target_url, strategy_links, pw_discovered_urls, same_domain_tests>>

cached_vars ==
    <<site_page, cache_files, requests, extractor_calls>>

walk_vars ==
    <<wpc, walker, json_data, calls, walk_links, walked>>

probe_vars ==
    <<ppc, prober, elements_found, page_url, click_before_url,
      probe_index, click_log>>

vars ==
    <<norm_vars, crawl_vars, hybrid_vars, strategy_vars, cached_vars, walk_vars, probe_vars>>

(***************************************************************************)
(* normalize_url applied to an input, to its own output, and to a variant  *)
(* of the input.                                                           *)
(***************************************************************************)

NormIdle ==
    /\ npc = "idle"
    /\ parts = [path |-> <<>>, fields |-> <<>>, fragment |-> <<>>]
    /\ url = <<>>
    /\ normalized = <<>>
    /\ renormalized = <<>>
    /\ variant = <<>>
    /\ variant_normalized = <<>>

Normalize ==
    /\ npc = "input"
    /\ normalized' = normalize_url(url)
    /\ npc' = "normalized"
    /\ UNCHANGED <<parts, url, renormalized, variant, variant_normalized,
                   crawl_vars, hybrid_vars, strategy_vars, cached_vars, walk_vars, probe_vars>>

Renormalize ==
    /\ npc = "normalized"
    /\ renormalized' = normalize_url(normalized)
    /\ npc' = "renormalized"
    /\ UNCHANGED <<parts, url, normalized, variant, variant_normalized,
                   crawl_vars, hybrid_vars, strategy_vars, cached_vars, walk_vars, probe_vars>>

NormalizeVariant ==
    /\ npc = "renormalized"
    /\ \E v \in Variants(parts) :
          /\ variant' = v
          /\ variant_normalized' = normalize_url(v)
    /\ npc' = "compared"
    /\ UNCHANGED <<parts, url, normalized, renormalized,
                   crawl_vars, hybrid_vars, strategy_vars, cached_vars, walk_vars, probe_vars>>

(***************************************************************************)
(* The crawl frontiers: AdvancedScraper (advanced_scraper.py) and          *)
(* PythonScraper (python_scraper.py).                                      *)
(***************************************************************************)

\* the largest max_depth a session is started with
MaxDepthBound == 3

\* the per-depth batch cap, urls_at_depth[:50], scaled down
BatchCap == 2

\* the per-page link cap of PythonScraper, links[:20], scaled down
LinkCap == 2

\* the URLs a session is started on, as passed to the constructor
CrawlSeeds ==
    { <<"h", "t", "t", "p", "s", ":", "/", "/", "e", "x", "a", "m", "p", "l", "e", ".", "c", "o", "m", "/">>,
      <<"h", "t", "t", "p", "s", ":", "/", "/", "e", "x", "a", "m", "p", "l", "e", ".", "c", "o", "m", "/", "#", "t", "o", "p">> }

\* the markup a server can return: sets of tags carrying a link attribute
Bodies ==
    { {},
      { [tag |-> "a", attr |-> <<"/", "a">>],
        [tag |-> "a", attr |-> <<"/", "a", "#", "f", "r", "a", "g">>],
        [tag |-> "a", attr |-> <<"h", "t", "t", "p", "s", ":", "/", "/", "e", "x", "a", "m", "p", "l", "e", ".", "c", "o", "m", "/", "a", "?", "u", "t", "m", "_", "s", "o", "u", "r", "c", "e", "=", "x">>],
        [tag |-> "a", attr |-> <<"h", "t", "t", "p", "s", ":", "/", "/", "o", "t", "h", "e", "r", ".", "c", "o", "m", "/", "b">>] },
      { [tag |-> "link", attr |-> <<"/", "a">>],
        [tag |-> "a", attr |-> <<"/">>],
        [tag |-> "a", attr |-> <<"#", "t", "o", "p">>],
        [tag |-> "a", attr |-> <<"m", "a", "i", "l", "t", "o", ":", "x", "@", "y">>] } }

\* the content-type headers a server can return
ContentTypes ==
    { <<"t", "e", "x", "t", "/", "h", "t", "m", "l">>,
      <<"t", "e", "x", "t", "/", "c", "s", "s">> }

Min(a, b) ==
    IF a < b THEN a ELSE b

RECURSIVE LStrip(_, _)
LStrip(s, c) ==
    IF Len(s) > 0 /\ s[1] = c THEN LStrip(Tail(s), c) ELSE s

\* s.strip(), for the blank
Strip(s) ==
    LStrip(RStrip(s, " "), " ")

\* os.path.basename
basename(path) ==
    From(path, RFind(path, "/") + 1)

\* clean_url without the removal of the fragment
clean_url_keeping_fragment(u) ==
    With(urlparse(u), LAMBDA parsed :
        urlunparse(parsed.scheme, parsed.netloc, parsed.path, parsed.params, parsed.query,
                   parsed.fragment))

\* AdvancedScraper.clean_url, PythonScraper.clean_url
clean_url(u) ==
    With(urlparse(u), LAMBDA parsed :
        urlunparse(parsed.scheme, parsed.netloc, parsed.path, parsed.params, parsed.query,
                   <<>>))

\* AdvancedScraper.is_same_domain, PythonScraper.is_same_domain
is_same_domain(u) ==
    urlparse(u).netloc = urlparse(base_url).netloc

\* AdvancedScraper.extract_all_links, on the tags of the parsed markup
extract_all_links(body, base) ==
    { clean_url(urljoin(base, Strip(tg.attr))) :
        tg \in { tg \in body :
                   \/ /\ tg.tag = "a"
                      /\ Len(Strip(tg.attr)) > 0
                      /\ ~StartsWith(Strip(tg.attr), <<"#">>)
                      /\ ~StartsWith(Strip(tg.attr), <<"m", "a", "i", "l", "t", "o", ":">>)
                      /\ ~StartsWith(Strip(tg.attr), <<"t", "e", "l", ":">>)
                   \/ /\ tg.tag \in {"link", "script", "img"}
                      /\ Len(Strip(tg.attr)) > 0
                   \/ tg.tag = "style" } }

\* PythonScraper.extract_links_from_html, on the tags of the parsed markup
py_extract_links_from_html(body, base) ==
    { clean_url(urljoin(base, Strip(tg.attr))) :
        tg \in { tg \in body :
                   \/ /\ tg.tag \in {"a", "link"}
                      /\ Len(Strip(tg.attr)) > 0
                      /\ ~StartsWith(Strip(tg.attr), <<"#">>)
                      /\ ~StartsWith(Strip(tg.attr), <<"m", "a", "i", "l", "t", "o", ":">>)
                   \/ /\ tg.tag \in {"img", "script"}
                      /\ Len(Strip(tg.attr)) > 0 } }

skip_patterns ==
    { <<"/", "_", "n", "e", "x", "t", "/", "s", "t", "a", "t", "i", "c", "/", "c", "h", "u", "n", "k", "s", "/", "w", "e", "b", "p", "a", "c", "k">>,
      <<"/", "_", "n", "e", "x", "t", "/", "s", "t", "a", "t", "i", "c", "/", "c", "h", "u", "n", "k", "s", "/", "p", "o", "l", "y", "f", "i", "l", "l", "s">>,
      <<".", "m", "a", "p">>, <<".", "x", "m", "l">>, <<".", "t", "x", "t">> }

\* AdvancedScraper.should_download
should_download(u) ==
    /\ is_same_domain(u)
    /\ u \notin visited_urls
    /\ With(Lower(urlparse(u).path), LAMBDA path :
            ~\E pattern \in skip_patterns : Contains(path, pattern))

\* AdvancedScraper.is_html_content
is_html_content(u, content_type) ==
    \/ Contains(Lower(content_type), <<"h", "t", "m", "l">>)
    \/ With(urlparse(u).path, LAMBDA path :
           ~HasChar(basename(path), ".") \/ EndsWith(path, <<"/">>))

\* a result dict labelled one level deeper than the fetch
result_record_one_deeper(u, depth, content_type) ==
    [url |-> u, depth |-> depth + 1, status |-> "success",
     links_extracted |-> -1, link_extraction_error |-> FALSE]

\* the result dict of a fetch with status 200, without the fields that only
\* describe the stored file; links_extracted = -1 stands for an absent key
result_record(u, depth, content_type) ==
    [url |-> u, depth |-> depth, status |-> "success",
     links_extracted |-> -1, link_extraction_error |-> FALSE]

\* a list from which the URLs once left out of a batch are removed
UrlsAtDepth_without_surplus ==
    (discovered_urls \ visited_urls) \ { s.url : s \in surplus }

\* the list built at the head of the loop body of scrape_recursive
UrlsAtDepth ==
    discovered_urls \ visited_urls

CrawlIdle ==
    /\ scraper = "none"
    /\ cpc = "idle"
    /\ base_url = <<>>
    /\ max_depth = 0
    /\ visited_urls = {}
    /\ discovered_urls = {}
    /\ downloaded_files = <<>>
    /\ current_depth = 0
    /\ urls_at_depth = {}
    /\ tasks = <<>>
    /\ stack = <<>>
    /\ fetch_log = <<>>
    /\ surplus = {}
    /\ served = <<>>
    /\ selected = {}
    /\ failed = {}

(***************************************************************************)
(* AdvancedScraper.scrape_recursive: the coordinating flow.                *)
(***************************************************************************)

\* the base URL enters discovered_urls and the loop starts at depth 0
StartSession ==
    /\ scraper = "advanced"
    /\ cpc = "init"
    /\ discovered_urls' = discovered_urls \cup {base_url}
    /\ current_depth' = 0
    /\ cpc' = "loop"
    /\ UNCHANGED <<scraper, base_url, max_depth, visited_urls, downloaded_files,
                   urls_at_depth, tasks, stack, fetch_log, surplus, served,
                   selected, failed, norm_vars, hybrid_vars, strategy_vars, cached_vars, walk_vars, probe_vars>>

\* a coordinating flow that marks the URLs of the batch visited itself
SelectBatch_marking_visited ==
    /\ scraper = "advanced"
    /\ cpc = "loop"
    /\ current_depth <= max_depth
    /\ UrlsAtDepth # {}
    /\ \E batch \in SUBSET UrlsAtDepth :
          /\ Cardinality(batch) = Min(BatchCap, Cardinality(UrlsAtDepth))
          /\ tasks' = [u \in batch |-> [pc |-> "created", depth |-> current_depth]]
          /\ surplus' = surplus \cup
                 {[url |-> u, depth |-> current_depth] : u \in UrlsAtDepth \ batch}
          /\ selected' = selected \cup {[url |-> u, depth |-> current_depth] : u \in batch}
          /\ visited_urls' = visited_urls \cup batch
    /\ urls_at_depth' = UrlsAtDepth
    /\ cpc' = "gather"
    /\ UNCHANGED <<scraper, base_url, max_depth, discovered_urls,
                   downloaded_files, current_depth, stack, fetch_log, served,
                   failed, norm_vars, hybrid_vars, strategy_vars, cached_vars, walk_vars, probe_vars>>

\* one iteration of the loop up to the call of gather: the list of unvisited
\* discovered URLs is built and its first BatchCap elements become coroutines.
\* The list follows the iteration order of a set, so the batch is any subset
\* of that size.
SelectBatch ==
    /\ scraper = "advanced"
    /\ cpc = "loop"
    /\ current_depth <= max_depth
    /\ UrlsAtDepth # {}
    /\ \E batch \in SUBSET UrlsAtDepth :
          /\ Cardinality(batch) = Min(BatchCap, Cardinality(UrlsAtDepth))
          /\ tasks' = [u \in batch |-> [pc |-> "created", depth |-> current_depth]]
          /\ surplus' = surplus \cup
                 {[url |-> u, depth |-> current_depth] : u \in UrlsAtDepth \ batch}
          /\ selected' = selected \cup {[url |-> u, depth |-> current_depth] : u \in batch}
    /\ urls_at_depth' = UrlsAtDepth
    /\ cpc' = "gather"
    /\ UNCHANGED <<scraper, base_url, max_depth, visited_urls, discovered_urls,
                   downloaded_files, current_depth, stack, fetch_log, served,
                   failed, norm_vars, hybrid_vars, strategy_vars, cached_vars, walk_vars, probe_vars>>

\* the loop ends: range(max_depth + 1) is exhausted or the list is empty
LoopExit ==
    /\ scraper = "advanced"
    /\ cpc = "loop"
    /\ (current_depth > max_depth \/ UrlsAtDepth = {})
    /\ cpc' = "summary"
    /\ UNCHANGED <<scraper, base_url, max_depth, visited_urls, discovered_urls,
                   downloaded_files, current_depth, urls_at_depth, tasks, stack,
                   fetch_log, surplus, served,
                   selected, failed, norm_vars, hybrid_vars, strategy_vars, cached_vars, walk_vars, probe_vars>>

\* a gather that returns with the first result and abandons the other coroutines
GatherDone_at_first_result ==
    /\ scraper = "advanced"
    /\ cpc = "gather"
    /\ \/ DOMAIN tasks = {}
       \/ \E u \in DOMAIN tasks : tasks[u].pc = "done"
    /\ tasks' = <<>>
    /\ current_depth' = current_depth + 1
    /\ cpc' = "loop"
    /\ UNCHANGED <<scraper, base_url, max_depth, visited_urls, discovered_urls,
                   downloaded_files, urls_at_depth, stack, fetch_log, surplus, served,
                   selected, failed, norm_vars, hybrid_vars, strategy_vars, cached_vars, walk_vars, probe_vars>>

\* asyncio.gather returns once every coroutine of the batch has returned, and
\* the loop goes on with the next depth; an exception that leaves a coroutine
\* is raised by gather at once and leaves scrape_recursive
GatherDone ==
    /\ scraper = "advanced"
    /\ cpc = "gather"
    /\ \/ \A u \in DOMAIN tasks : tasks[u].pc = "done"
       \/ \E u \in DOMAIN tasks : tasks[u].pc = "raised"
    /\ IF \E u \in DOMAIN tasks : tasks[u].pc = "raised"
       THEN /\ cpc' = "raised"
            /\ UNCHANGED <<tasks, current_depth>>
       ELSE /\ tasks' = <<>>
            /\ current_depth' = current_depth + 1
            /\ cpc' = "loop"
    /\ UNCHANGED <<scraper, base_url, max_depth, visited_urls, discovered_urls,
                   downloaded_files, urls_at_depth, stack, fetch_log, surplus, served,
                   selected, failed, norm_vars, hybrid_vars, strategy_vars, cached_vars, walk_vars, probe_vars>>

\* the summary is built and returned (both scrapers)
Finish ==
    /\ cpc = "summary"
    /\ cpc' = "done"
    /\ UNCHANGED <<scraper, base_url, max_depth, visited_urls, discovered_urls,
                   downloaded_files, current_depth, urls_at_depth, tasks, stack,
                   fetch_log, surplus, served,
                   selected, failed, norm_vars, hybrid_vars, strategy_vars, cached_vars, walk_vars, probe_vars>>

(***************************************************************************)
(* AdvancedScraper.download_single_file: one coroutine of a batch.  It     *)
(* runs without suspension up to session.get, and again from the end of    *)
(* the file write to its return.                                           *)
(***************************************************************************)

\* the guard fails: the coroutine returns the skipped result
DownloadSkip(u) ==
    /\ scraper = "advanced"
    /\ cpc = "gather"
    /\ tasks[u].pc = "created"
    /\ (~should_download(u) \/ tasks[u].depth > max_depth)
    /\ tasks' = [tasks EXCEPT ![u].pc = "done"]
    /\ UNCHANGED <<scraper, cpc, base_url, max_depth, visited_urls, discovered_urls,
                   downloaded_files, current_depth, urls_at_depth, stack, fetch_log,
                   surplus, served,
                   selected, failed, norm_vars, hybrid_vars, strategy_vars, cached_vars, walk_vars, probe_vars>>

\* a start of the fetch that leaves the URL out of visited_urls
DownloadStart_without_marking(u) ==
    /\ scraper = "advanced"
    /\ cpc = "gather"
    /\ tasks[u].pc = "created"
    /\ ~(~should_download(u) \/ tasks[u].depth > max_depth)
    /\ fetch_log' = Append(fetch_log, [url |-> u, depth |-> tasks[u].depth])
    /\ tasks' = [tasks EXCEPT ![u].pc = "fetching"]
    /\ UNCHANGED <<scraper, cpc, base_url, max_depth, visited_urls, discovered_urls,
                   downloaded_files, current_depth, urls_at_depth, stack, surplus, served,
                   selected, failed, norm_vars, hybrid_vars, strategy_vars, cached_vars, walk_vars, probe_vars>>

\* the guard passes: the URL is marked visited and the GET is issued
DownloadStart(u) ==
    /\ scraper = "advanced"
    /\ cpc = "gather"
    /\ tasks[u].pc = "created"
    /\ ~(~should_download(u) \/ tasks[u].depth > max_depth)
    /\ visited_urls' = visited_urls \cup {u}
    /\ fetch_log' = Append(fetch_log, [url |-> u, depth |-> tasks[u].depth])
    /\ tasks' = [tasks EXCEPT ![u].pc = "fetching"]
    /\ UNCHANGED <<scraper, cpc, base_url, max_depth, discovered_urls, downloaded_files,
                   current_depth, urls_at_depth, stack, surplus, served,
                   selected, failed, norm_vars, hybrid_vars, strategy_vars, cached_vars, walk_vars, probe_vars>>

\* a handler that catches the client errors only: a timeout leaves the coroutine
error_result_reraised(u, depth, failure) ==
    [url |-> u, depth |-> depth, error |-> failure, returned |-> failure # "timeout"]

\* the dict a failed fetch ends with: a status other than 200 returns at once,
\* a timeout or another exception of the request, the read or the file write
\* is caught by except Exception
error_result(u, depth, failure) ==
    [url |-> u, depth |-> depth, error |-> failure, returned |-> TRUE]

\* a failed fetch: the coroutine returns the error result, which gather hands
\* to nobody, and nothing is recorded
DownloadError(u) ==
    /\ scraper = "advanced"
    /\ cpc = "gather"
    /\ tasks[u].pc = "fetching"
    /\ \E failure \in {"status", "timeout", "exception"} :
          \E result \in {error_result(u, tasks[u].depth, failure)} :
             /\ tasks' = [tasks EXCEPT ![u].pc = IF result.returned THEN "done" ELSE "raised"]
             /\ failed' = failed \cup {[url |-> u, depth |-> tasks[u].depth]}
    /\ UNCHANGED <<scraper, cpc, base_url, max_depth, visited_urls, discovered_urls,
                   downloaded_files, current_depth, urls_at_depth, stack, fetch_log,
                   surplus, served,
                   selected, norm_vars, hybrid_vars, strategy_vars, cached_vars, walk_vars, probe_vars>>

\* status 200 without link extraction: not HTML, or the last depth
DownloadLeaf(u) ==
    /\ scraper = "advanced"
    /\ cpc = "gather"
    /\ tasks[u].pc = "fetching"
    /\ \E content_type \in ContentTypes :
          /\ ~(is_html_content(u, content_type) /\ tasks[u].depth < max_depth)
          /\ downloaded_files' =
                 Append(downloaded_files, result_record(u, tasks[u].depth, content_type))
    /\ tasks' = [tasks EXCEPT ![u].pc = "done"]
    /\ UNCHANGED <<scraper, cpc, base_url, max_depth, visited_urls, discovered_urls,
                   current_depth, urls_at_depth, stack, fetch_log, surplus, served,
                   selected, failed, norm_vars, hybrid_vars, strategy_vars, cached_vars, walk_vars, probe_vars>>

\* an extraction of links that does not look at the depth
DownloadExtract_at_any_depth(u) ==
    /\ scraper = "advanced"
    /\ cpc = "gather"
    /\ tasks[u].pc = "fetching"
    /\ \E content_type \in ContentTypes, body \in Bodies :
          /\ is_html_content(u, content_type)
          /\ \E new_links \in {{ link \in extract_all_links(body, u) :
                                     link \notin visited_urls /\ link \notin discovered_urls }} :
                 /\ discovered_urls' = discovered_urls \cup new_links
                 /\ served' = [x \in DOMAIN served \cup {u} |->
                                   IF x = u THEN body ELSE served[x]]
                 /\ downloaded_files' =
                        Append(downloaded_files,
                               [result_record(u, tasks[u].depth, content_type)
                                   EXCEPT !.links_extracted = Cardinality(new_links)])
    /\ tasks' = [tasks EXCEPT ![u].pc = "done"]
    /\ UNCHANGED <<scraper, cpc, base_url, max_depth, visited_urls, current_depth,
                   urls_at_depth, stack, fetch_log, surplus,
                   selected, failed, norm_vars, hybrid_vars, strategy_vars, cached_vars, walk_vars, probe_vars>>

\* an extraction that counts every link of the page, the known ones included
DownloadExtract_counting_every_link(u) ==
    /\ scraper = "advanced"
    /\ cpc = "gather"
    /\ tasks[u].pc = "fetching"
    /\ tasks[u].depth < max_depth
    /\ \E content_type \in ContentTypes, body \in Bodies :
          /\ is_html_content(u, content_type)
          /\ \E new_links \in {{ link \in extract_all_links(body, u) :
                                     link \notin visited_urls /\ link \notin discovered_urls }} :
                 /\ discovered_urls' = discovered_urls \cup new_links
                 /\ served' = [x \in DOMAIN served \cup {u} |->
                                   IF x = u THEN body ELSE served[x]]
                 /\ downloaded_files' =
                        Append(downloaded_files,
                               [result_record(u, tasks[u].depth, content_type)
                                   EXCEPT !.links_extracted =
                                      Cardinality(extract_all_links(body, u))])
    /\ tasks' = [tasks EXCEPT ![u].pc = "done"]
    /\ UNCHANGED <<scraper, cpc, base_url, max_depth, visited_urls, current_depth,
                   urls_at_depth, stack, fetch_log, surplus,
                   selected, failed, norm_vars, hybrid_vars, strategy_vars, cached_vars, walk_vars, probe_vars>>

\* status 200, HTML, below the last depth: the links that are neither visited
\* nor discovered enter discovered_urls
DownloadExtract(u) ==
    /\ scraper = "advanced"
    /\ cpc = "gather"
    /\ tasks[u].pc = "fetching"
    /\ tasks[u].depth < max_depth
    /\ \E content_type \in ContentTypes, body \in Bodies :
          /\ is_html_content(u, content_type)
          /\ \E new_links \in {{ link \in extract_all_links(body, u) :
                                     link \notin visited_urls /\ link \notin discovered_urls }} :
                 /\ discovered_urls' = discovered_urls \cup new_links
                 /\ served' = [x \in DOMAIN served \cup {u} |->
                                   IF x = u THEN body ELSE served[x]]
                 /\ downloaded_files' =
                        Append(downloaded_files,
                               [result_record(u, tasks[u].depth, content_type)
                                   EXCEPT !.links_extracted = Cardinality(new_links)])
    /\ tasks' = [tasks EXCEPT ![u].pc = "done"]
    /\ UNCHANGED <<scraper, cpc, base_url, max_depth, visited_urls, current_depth,
                   urls_at_depth, stack, fetch_log, surplus,
                   selected, failed, norm_vars, hybrid_vars, strategy_vars, cached_vars, walk_vars, probe_vars>>

\* status 200, HTML, below the last depth, and parsing the markup raises:
\* the result carries link_extraction_error.  served keeps the markup.
DownloadExtractError(u) ==
    /\ scraper = "advanced"
    /\ cpc = "gather"
    /\ tasks[u].pc = "fetching"
    /\ tasks[u].depth < max_depth
    /\ \E content_type \in ContentTypes, body \in Bodies :
          /\ is_html_content(u, content_type)
          /\ served' = [x \in DOMAIN served \cup {u} |->
                            IF x = u THEN body ELSE served[x]]
          /\ downloaded_files' =
                 Append(downloaded_files,
                        [result_record(u, tasks[u].depth, content_type)
                            EXCEPT !.link_extraction_error = TRUE])
    /\ tasks' = [tasks EXCEPT ![u].pc = "done"]
    /\ UNCHANGED <<scraper, cpc, base_url, max_depth, visited_urls, discovered_urls,
                   current_depth, urls_at_depth, stack, fetch_log, surplus,
                   selected, failed, norm_vars, hybrid_vars, strategy_vars, cached_vars, walk_vars, probe_vars>>

(***************************************************************************)
(* PythonScraper: scrape and the recursive download_file.  stack holds the *)
(* active calls, the innermost last.                                       *)
(***************************************************************************)

\* the entry of download_file(u, depth), called with the stack stk: the guard,
\* then the URL is marked visited and the GET is issued
py_download_file(u, depth, stk) ==
    IF u \in visited_urls \/ depth > max_depth
    THEN /\ stack' = stk
         /\ UNCHANGED <<visited_urls, fetch_log>>
    ELSE /\ visited_urls' = visited_urls \cup {u}
         /\ fetch_log' = Append(fetch_log, [url |-> u, depth |-> depth])
         /\ stack' = Append(stk, [url |-> u, depth |-> depth, pc |-> "fetching",
                                  links |-> {}, result |-> result_record(u, depth, <<>>)])

Top ==
    stack[Len(stack)]

Popped ==
    SubSeq(stack, 1, Len(stack) - 1)

\* scrape calls download_file(base_url, 0)
PyScrape ==
    /\ scraper = "python"
    /\ cpc = "init"
    /\ py_download_file(base_url, 0, <<>>)
    /\ cpc' = "running"
    /\ UNCHANGED <<scraper, base_url, max_depth, discovered_urls, downloaded_files,
                   current_depth, urls_at_depth, tasks, surplus, served,
                   selected, failed, norm_vars, hybrid_vars, strategy_vars, cached_vars, walk_vars, probe_vars>>

\* a status other than 200 or an exception: the call returns an error result
PyError ==
    /\ scraper = "python"
    /\ cpc = "running"
    /\ Len(stack) > 0
    /\ Top.pc = "fetching"
    /\ stack' = Popped
    /\ failed' = failed \cup {[url |-> Top.url, depth |-> Top.depth]}
    /\ cpc' = IF Len(stack) = 1 THEN "summary" ELSE "running"
    /\ UNCHANGED <<scraper, base_url, max_depth, visited_urls, discovered_urls,
                   downloaded_files, current_depth, urls_at_depth, tasks, fetch_log,
                   surplus, served,
                   selected, norm_vars, hybrid_vars, strategy_vars, cached_vars, walk_vars, probe_vars>>

\* status 200 without link extraction: the result is appended and returned.
\* served keeps the markup of a response that is HTML.
PyLeaf ==
    /\ scraper = "python"
    /\ cpc = "running"
    /\ Len(stack) > 0
    /\ Top.pc = "fetching"
    /\ \E content_type \in ContentTypes, body \in Bodies :
          /\ ~(Contains(content_type, <<"h", "t", "m", "l">>) /\ Top.depth < max_depth)
          /\ downloaded_files' =
                 Append(downloaded_files, result_record(Top.url, Top.depth, content_type))
          /\ served' = IF Contains(content_type, <<"h", "t", "m", "l">>)
                       THEN [x \in DOMAIN served \cup {Top.url} |->
                                IF x = Top.url THEN body ELSE served[x]]
                       ELSE served
    /\ stack' = Popped
    /\ cpc' = IF Len(stack) = 1 THEN "summary" ELSE "running"
    /\ UNCHANGED <<scraper, base_url, max_depth, visited_urls, discovered_urls,
                   current_depth, urls_at_depth, tasks, fetch_log, surplus,
                   selected, failed, norm_vars, hybrid_vars, strategy_vars, cached_vars, walk_vars, probe_vars>>

\* status 200, HTML, below the last depth: the links are extracted and the
\* first LinkCap of the list are kept for the loop.  The list follows the
\* iteration order of a set, so the kept links are any subset of that size.
PyExtract ==
    /\ scraper = "python"
    /\ cpc = "running"
    /\ Len(stack) > 0
    /\ Top.pc = "fetching"
    /\ Top.depth < max_depth
    /\ \E content_type \in ContentTypes, body \in Bodies :
          /\ Contains(content_type, <<"h", "t", "m", "l">>)
          /\ \E links \in {py_extract_links_from_html(body, Top.url)} :
                 \E kept \in SUBSET links :
                    /\ Cardinality(kept) = Min(LinkCap, Cardinality(links))
                    /\ stack' = [stack EXCEPT ![Len(stack)] =
                           [Top EXCEPT !.pc = "following",
                                       !.links = kept,
                                       !.result = [result_record(Top.url, Top.depth, content_type)
                                                      EXCEPT !.links_extracted = Cardinality(links)]]]
                    /\ served' = [x \in DOMAIN served \cup {Top.url} |->
                                      IF x = Top.url THEN body ELSE served[x]]
    /\ UNCHANGED <<scraper, cpc, base_url, max_depth, visited_urls, discovered_urls,
                   downloaded_files, current_depth, urls_at_depth, tasks, fetch_log,
                   surplus,
                   selected, failed, norm_vars, hybrid_vars, strategy_vars, cached_vars, walk_vars, probe_vars>>

\* one iteration of the loop over the kept links: a same-domain link is
\* downloaded at depth + 1
PyFollow ==
    /\ scraper = "python"
    /\ cpc = "running"
    /\ Len(stack) > 0
    /\ Top.pc = "following"
    /\ \E link \in Top.links :
          LET rest == [stack EXCEPT ![Len(stack)].links = Top.links \ {link}]
          IN  IF is_same_domain(link)
              THEN py_download_file(link, Top.depth + 1, rest)
              ELSE /\ stack' = rest
                   /\ UNCHANGED <<visited_urls, fetch_log>>
    /\ UNCHANGED <<scraper, cpc, base_url, max_depth, discovered_urls, downloaded_files,
                   current_depth, urls_at_depth, tasks, surplus, served,
                   selected, failed, norm_vars, hybrid_vars, strategy_vars, cached_vars, walk_vars, probe_vars>>

\* the loop is over: the result is appended and returned
PyReturn ==
    /\ scraper = "python"
    /\ cpc = "running"
    /\ Len(stack) > 0
    /\ Top.pc = "following"
    /\ Top.links = {}
    /\ downloaded_files' = Append(downloaded_files, Top.result)
    /\ stack' = Popped
    /\ cpc' = IF Len(stack) = 1 THEN "summary" ELSE "running"
    /\ UNCHANGED <<scraper, base_url, max_depth, visited_urls, discovered_urls,
                   current_depth, urls_at_depth, tasks, fetch_log, surplus, served,
                   selected, failed, norm_vars, hybrid_vars, strategy_vars, cached_vars, walk_vars, probe_vars>>

(***************************************************************************)
(* extract_links_hybrid (scraper_hybrid.py) and the outcome of the three   *)
(* strategies it calls.  A link is written as a number: link i is the i-th *)
(* of the URLs of the page in the order of sorted().                       *)
(***************************************************************************)

\* the number of distinct links a page can yield
MaxLinks == 6

\* the link sets a strategy can find: the runs a..b of links, the empty set
\* included
LinkSets ==
    { a..b : a \in 1..MaxLinks, b \in 0..MaxLinks }

\* what happens inside a strategy: it runs to its end and finds links, or one
\* of its steps raises.  For the dynamic strategy the raising step is the
\* launch of the browser or the navigation to the page.
Outcomes(raising_steps) ==
    [raises : {"no"}, links : LinkSets] \cup [raises : raising_steps, links : {{}}]

\* the value of a result variable before the call
NoResult ==
    [success |-> FALSE, method |-> "none", error |-> "none", links |-> {}, count |-> 0,
     returned |-> FALSE]

\* the dict of the final return of a strategy
success_result(method, links) ==
    [success |-> TRUE, method |-> method, error |-> "none", links |-> links,
     count |-> Cardinality(links), returned |-> TRUE]

\* the dict returned by the except clause of a strategy
failure_result(method, error) ==
    [success |-> FALSE, method |-> method, error |-> error, links |-> {}, count |-> 0,
     returned |-> TRUE]

\* a strategy whose exception is not caught: nothing is returned
uncaught(method, error) ==
    [success |-> FALSE, method |-> method, error |-> error, links |-> {}, count |-> 0,
     returned |-> FALSE]

\* extract_static_links: the whole body is inside try / except Exception
extract_static_links(outcome) ==
    IF outcome.raises = "no" THEN success_result("static", outcome.links)
    ELSE failure_result("static", outcome.raises)

\* extract_nextjs_data: the whole body is inside try / except Exception
extract_nextjs_data(outcome) ==
    IF outcome.raises = "no" THEN success_result("nextjs", outcome.links)
    ELSE failure_result("nextjs", outcome.raises)

\* extract_dynamic_links with an exception of launch or goto leaving the function
extract_dynamic_links_uncaught(outcome) ==
    IF outcome.raises = "no" THEN success_result("dynamic", outcome.links)
    ELSE uncaught("dynamic", outcome.raises)

\* extract_dynamic_links: launch and goto are inside try / except Exception;
\* the finally clause closes the browser and the exception reaches the except
extract_dynamic_links(outcome) ==
    IF outcome.raises = "no" THEN success_result("dynamic", outcome.links)
    ELSE failure_result("dynamic", outcome.raises)

\* a guard that calls extract_dynamic_links only when nothing was found
needs_dynamic_when_empty(links) ==
    links = {}

\* the test that guards the call of extract_dynamic_links, off by one
needs_dynamic_at_most_five(links) ==
    Cardinality(links) <= 5

\* the test that guards the call of extract_dynamic_links
needs_dynamic(links) ==
    Cardinality(links) < 5

\* the success field of the returned dict, true whatever was collected
result_success_always(links) ==
    Cardinality(links) >= 0

\* the success field of the returned dict
result_success(links) ==
    Cardinality(links) > 0

RECURSIVE sorted(_)
\* sorted(list(S)) for a set of links
sorted(S) ==
    IF S = {} THEN <<>>
    ELSE With(CHOOSE x \in S : \A y \in S : x <= y, LAMBDA m :
             <<m>> \o sorted(S \ {m}))

\* the if / else that follows the call of a strategy
merged_links(result) ==
    IF result.success /\ result.count > 0 THEN all_links \cup result.links ELSE all_links

\* a merge that records every strategy that returned success
merged_methods_of_success(result, name) ==
    IF result.success THEN Append(methods_used, name) ELSE methods_used

merged_methods(result, name) ==
    IF result.success /\ result.count > 0 THEN Append(methods_used, name) ELSE methods_used

merged_errors(result, label) ==
    IF ~(result.success /\ result.count > 0) /\ ~result.success
    THEN Append(errors, <<label, result.error>>)
    ELSE errors

HybridIdle ==
    /\ hpc = "idle"
    /\ static_result = NoResult
    /\ nextjs_result = NoResult
    /\ dynamic_result = NoResult
    /\ all_links = {}
    /\ methods_used = <<>>
    /\ errors = <<>>
    /\ call_log = <<>>
    /\ hybrid_result = NoResult

\* Method 1: the call of extract_static_links and the merge of its result
HybridStatic ==
    /\ hpc = "static"
    /\ \E outcome \in Outcomes({"ConnectionError", "HTTPError"}) :
          LET result == extract_static_links(outcome)
          IN  /\ static_result' = result
              /\ call_log' = Append(call_log, "static")
              /\ IF result.returned
                 THEN /\ all_links' = merged_links(result)
                      /\ methods_used' = merged_methods(result, "static")
                      /\ errors' = merged_errors(result, "Static")
                      /\ hpc' = "nextjs"
                 ELSE /\ hpc' = "raised"
                      /\ UNCHANGED <<all_links, methods_used, errors>>
    /\ UNCHANGED <<nextjs_result, dynamic_result, hybrid_result,
                   norm_vars, crawl_vars, strategy_vars, cached_vars, walk_vars, probe_vars>>

\* Method 2: the call of extract_nextjs_data and the merge of its result
HybridNextjs ==
    /\ hpc = "nextjs"
    /\ \E outcome \in Outcomes({"ConnectionError", "HTTPError"}) :
          LET result == extract_nextjs_data(outcome)
          IN  /\ nextjs_result' = result
              /\ call_log' = Append(call_log, "nextjs")
              /\ IF result.returned
                 THEN /\ all_links' = merged_links(result)
                      /\ methods_used' = merged_methods(result, "nextjs")
                      /\ errors' = merged_errors(result, "Next.js")
                      /\ hpc' = "dynamic"
                 ELSE /\ hpc' = "raised"
                      /\ UNCHANGED <<all_links, methods_used, errors>>
    /\ UNCHANGED <<static_result, dynamic_result, hybrid_result,
                   norm_vars, crawl_vars, strategy_vars, cached_vars, walk_vars, probe_vars>>

\* Method 3, taken: the call of extract_dynamic_links and the merge
HybridDynamic ==
    /\ hpc = "dynamic"
    /\ needs_dynamic(all_links)
    /\ \E outcome \in Outcomes({"launch", "goto"}) :
          LET result == extract_dynamic_links(outcome)
          IN  /\ dynamic_result' = result
              /\ call_log' = Append(call_log, "dynamic")
              /\ IF result.returned
                 THEN /\ all_links' = merged_links(result)
                      /\ methods_used' = merged_methods(result, "dynamic")
                      /\ errors' = merged_errors(result, "Dynamic")
                      /\ hpc' = "return"
                 ELSE /\ hpc' = "raised"
                      /\ UNCHANGED <<all_links, methods_used, errors>>
    /\ UNCHANGED <<static_result, nextjs_result, hybrid_result,
                   norm_vars, crawl_vars, strategy_vars, cached_vars, walk_vars, probe_vars>>

\* Method 3, not taken
HybridSkipDynamic ==
    /\ hpc = "dynamic"
    /\ ~needs_dynamic(all_links)
    /\ hpc' = "return"
    /\ UNCHANGED <<static_result, nextjs_result, dynamic_result, all_links, methods_used,
                   errors, call_log, hybrid_result,
                   norm_vars, crawl_vars, strategy_vars, cached_vars, walk_vars, probe_vars>>

\* the return statement; errors = <<>> stands for None
HybridReturn ==
    /\ hpc = "return"
    /\ hybrid_result' = [success |-> result_success(all_links),
                         links |-> sorted(all_links),
                         count |-> Cardinality(all_links),
                         methods_used |-> methods_used,
                         errors |-> errors,
                         returned |-> TRUE]
    /\ hpc' = "done"
    /\ UNCHANGED <<static_result, nextjs_result, dynamic_result, all_links, methods_used,
                   errors, call_log,
                   norm_vars, crawl_vars, strategy_vars, cached_vars, walk_vars, probe_vars>>

(***************************************************************************)
(* The link-extraction strategies and their same-domain tests:             *)
(* extract_links_from_html (scraper.py), extract_static_links,             *)
(* extract_nextjs_data and extract_dynamic_links (scraper_hybrid.py),      *)
(* extract_links_with_playwright (scraper_playwright.py) and               *)
(* extract_links_from_network (scraper_network.py).                        *)
(***************************************************************************)

\* the url argument of a strategy
StrategyUrls ==
    { <<"h", "t", "t", "p", "s", ":", "/", "/", "a", ".", "c", "o", "m", "/", "b", "l", "o", "g">>,
      <<"h", "t", "t", "p", "s", ":", "/", "/", "w", "w", "w", ".", "a", ".", "c", "o", "m", "/", "b", "l", "o", "g">> }

\* values of href attributes in the markup of the page
Hrefs ==
    { <<"/", "b", "l", "o", "g", "/", "p", "1">>,
      <<"h", "t", "t", "p", "s", ":", "/", "/", "w", "w", "w", ".", "a", ".", "c", "o", "m", "/", "b", "l", "o", "g", "/", "p", "2", "?", "u", "t", "m", "_", "s", "o", "u", "r", "c", "e", "=", "x">>,
      <<"h", "t", "t", "p", "s", ":", "/", "/", "b", ".", "c", "o", "m", "/", "b", "l", "o", "g", "/", "x">>,
      <<"h", "t", "t", "p", "s", ":", "/", "/", "a", ".", "w", "w", "w", ".", "c", "o", "m", "/", "b", "l", "o", "g", "/", "y">>,
      <<"/", "b", "l", "o", "g", "/", "p", "3", "?", "a", "=", "1", "&", "a", "m", "p", ";", "b", "=", "2">>,
      <<"#", "t", "o", "p">> }

\* el.href of the anchors of the rendered page: absolute URLs
DomLinks ==
    { <<"h", "t", "t", "p", "s", ":", "/", "/", "a", ".", "c", "o", "m", "/", "b", "l", "o", "g", "/", "p", "1">>,
      <<"h", "t", "t", "p", "s", ":", "/", "/", "w", "w", "w", ".", "a", ".", "c", "o", "m", "/", "b", "l", "o", "g", "/", "p", "2", "?", "u", "t", "m", "_", "s", "o", "u", "r", "c", "e", "=", "x">>,
      <<"h", "t", "t", "p", "s", ":", "/", "/", "b", ".", "c", "o", "m", "/", "b", "l", "o", "g", "/", "x">>,
      <<"h", "t", "t", "p", "s", ":", "/", "/", "a", ".", "w", "w", "w", ".", "c", "o", "m", "/", "b", "l", "o", "g", "/", "y">> }

\* the URL of the page after a click that navigates
NavigationUrls ==
    { <<"h", "t", "t", "p", "s", ":", "/", "/", "a", ".", "c", "o", "m", "/", "b", "l", "o", "g", "/", "p", "1">>,
      <<"h", "t", "t", "p", "s", ":", "/", "/", "b", ".", "c", "o", "m", "/", "b", "l", "o", "g", "/", "x">> }

\* string values under the keys slug, path, href, url of embedded JSON
JsonValues ==
    { <<"/", "b", "l", "o", "g", "/", "p", "1">>,
      <<"/">>,
      <<"/", "a", "p", "p", ".", "j", "s">>,
      <<"p", "2">> }

\* matches of the patterns applied to a captured API response
Matches ==
    { <<"/", "b", "l", "o", "g", "/", "p", "1">>,
      <<"h", "t", "t", "p", "s", ":", "/", "/", "b", ".", "c", "o", "m", "/", "b", "l", "o", "g", "/", "x">>,
      <<"b", "l", "o", "g", "-", "p", "o", "s", "t">>,
      <<"p", "2">> }

\* html.unescape, for the entity that occurs in Hrefs
html_unescape(s) ==
    Replace(s, <<"&", "a", "m", "p", ";">>, <<"&">>)

\* netloc.lower().replace('www.', '')
domain_clean(netloc) ==
    Replace(Lower(netloc), <<"w", "w", "w", ".">>, <<>>)

\* unwanted_patterns of extract_links_from_html and extract_links_with_playwright
unwanted_patterns ==
    { <<"c", "d", "n">>,
      <<".", "p", "n", "g">>,
      <<".", "j", "p", "g">>,
      <<".", "j", "p", "e", "g">>,
      <<".", "g", "i", "f">>,
      <<".", "s", "v", "g">>,
      <<".", "w", "e", "b", "p">>,
      <<"a", "s", "s", "e", "t", "s">>,
      <<"s", "t", "a", "t", "i", "c">>,
      <<".", "j", "s">>,
      <<".", "c", "s", "s">>,
      <<"(">>,
      <<")">>,
      <<"{">>,
      <<"}">>,
      <<"[">>,
      <<"]">> }

\* the pattern list of extract_static_links and extract_dynamic_links
unwanted_hybrid ==
    { <<"c", "d", "n">>,
      <<".", "p", "n", "g">>,
      <<".", "j", "p", "g">>,
      <<".", "j", "p", "e", "g">>,
      <<".", "g", "i", "f">>,
      <<".", "s", "v", "g">>,
      <<".", "w", "e", "b", "p">>,
      <<"a", "s", "s", "e", "t", "s">>,
      <<"s", "t", "a", "t", "i", "c">>,
      <<".", "j", "s">>,
      <<".", "c", "s", "s">> }

\* the pattern list of the final filter of extract_links_from_network
unwanted_network ==
    { <<"c", "d", "n">>,
      <<".", "p", "n", "g">>,
      <<".", "j", "p", "g">>,
      <<".", "j", "p", "e", "g">>,
      <<".", "g", "i", "f">>,
      <<".", "s", "v", "g">>,
      <<".", "w", "e", "b", "p">>,
      <<"a", "s", "s", "e", "t", "s">>,
      <<"s", "t", "a", "t", "i", "c">>,
      <<".", "j", "s">>,
      <<".", "c", "s", "s">> }

skipped_href(u) ==
    \/ Len(u) = 0
    \/ StartsWith(u, <<"#">>)
    \/ StartsWith(u, <<"j", "a", "v", "a", "s", "c", "r", "i", "p", "t", ":">>)
    \/ StartsWith(u, <<"m", "a", "i", "l", "t", "o", ":">>)

\* extract_links_from_html, the body of the loop for one match
html_href(href, base) ==
    With(html_unescape(href), LAMBDA u :
    With(urljoin(base, u), LAMBDA absolute_url :
    With(urlparse(absolute_url), LAMBDA parsed :
        IF skipped_href(u) \/ HasChar(u, "#") THEN {}
        ELSE IF \E pattern \in unwanted_patterns : Contains(Lower(absolute_url), pattern) THEN {}
        ELSE IF /\ parsed.scheme \in {S_http, S_https}
                /\ domain_clean(parsed.netloc) = domain_clean(urlparse(base).netloc)
             THEN { normalize_url(Split(absolute_url, "\"")[1]) }
             ELSE {})))

\* extract_links_from_html: the same-domain test the loop makes for one
\* match, none when the match is skipped before the test
html_domain_test(href, base) ==
    With(html_unescape(href), LAMBDA u :
    With(urljoin(base, u), LAMBDA absolute_url :
    With(urlparse(absolute_url), LAMBDA parsed :
        IF \/ skipped_href(u) \/ HasChar(u, "#")
           \/ \E pattern \in unwanted_patterns : Contains(Lower(absolute_url), pattern)
           \/ parsed.scheme \notin {S_http, S_https}
        THEN {}
        ELSE { [link |-> absolute_url,
                accepted |-> domain_clean(parsed.netloc)
                                = domain_clean(urlparse(base).netloc)] })))

\* extract_static_links: the same-domain test the loop makes for one anchor
static_domain_test(href, u) ==
    With(urljoin(u, href), LAMBDA absolute_url :
        IF \/ StartsWith(href, <<"#">>)
           \/ StartsWith(href, <<"j", "a", "v", "a", "s", "c", "r", "i", "p", "t", ":">>)
           \/ StartsWith(href, <<"m", "a", "i", "l", "t", "o", ":">>)
        THEN {}
        ELSE { [link |-> absolute_url,
                accepted |-> domain_clean(urlparse(absolute_url).netloc)
                                = domain_clean(urlparse(u).netloc)] })

\* extract_static_links, the body of the loop for one anchor
static_anchor(href, u) ==
    With(urljoin(u, href), LAMBDA absolute_url :
        IF \/ StartsWith(href, <<"#">>)
           \/ StartsWith(href, <<"j", "a", "v", "a", "s", "c", "r", "i", "p", "t", ":">>)
           \/ StartsWith(href, <<"m", "a", "i", "l", "t", "o", ":">>)
        THEN {}
        ELSE IF /\ domain_clean(urlparse(absolute_url).netloc) = domain_clean(urlparse(u).netloc)
                /\ ~\E pattern \in unwanted_hybrid : Contains(Lower(absolute_url), pattern)
             THEN { normalize_url(absolute_url) }
             ELSE {})

\* the suffixes walk_json skips
static_suffixes ==
    { <<".", "j", "s">>,
      <<".", "c", "s", "s">>,
      <<".", "p", "n", "g">>,
      <<".", "j", "p", "g">>,
      <<".", "j", "p", "e", "g">>,
      <<".", "g", "i", "f">>,
      <<".", "s", "v", "g">> }

\* extract_nextjs_data, walk_json for one string value under a link key
nextjs_value(v, u) ==
    With(urlparse(u), LAMBDA parsed_url :
    With(parsed_url.scheme \o <<":", "/", "/">> \o parsed_url.netloc, LAMBDA base_url_ :
        IF /\ StartsWith(v, <<"/">>)
           /\ Len(v) > 1
           /\ ~\E suffix \in static_suffixes : EndsWith(v, suffix)
        THEN { normalize_url(base_url_ \o v) }
        ELSE {}))

\* extract_dynamic_links, Method 3a, the body of the loop for one DOM link
dynamic_dom_link(link, u) ==
    With(domain_clean(urlparse(link).netloc), LAMBDA link_domain :
        IF /\ Len(link) > 0
           /\ (Len(link_domain) = 0 \/ link_domain = domain_clean(urlparse(u).netloc))
           /\ ~\E pattern \in unwanted_hybrid : Contains(Lower(link), pattern)
        THEN { normalize_url(link) }
        ELSE {})

\* extract_links_with_playwright, the body of the loop over links
playwright_link(link, u) ==
    With(urlparse(link), LAMBDA link_parsed :
        IF skipped_href(link) \/ HasChar(link, "#") THEN {}
        ELSE IF \E pattern \in unwanted_patterns : Contains(Lower(link), pattern) THEN {}
        ELSE IF /\ link_parsed.scheme \in {S_http, S_https}
                /\ domain_clean(link_parsed.netloc) = domain_clean(urlparse(u).netloc)
             THEN { normalize_url(link) }
             ELSE {})

RECURSIVE LStripChars(_, _)
LStripChars(s, chars) ==
    IF Len(s) > 0 /\ s[1] \in chars THEN LStripChars(Tail(s), chars) ELSE s

RECURSIVE RStripChars(_, _)
RStripChars(s, chars) ==
    IF Len(s) > 0 /\ s[Len(s)] \in chars
    THEN RStripChars(SubSeq(s, 1, Len(s) - 1), chars) ELSE s

\* process_match of scraper_network.py: the URLs it adds to links
process_match(match, base) ==
    With(LStripChars(RStripChars(match, {"'", "\"", "\\", "/"}), {"'", "\"", "\\", "/"}),
         LAMBDA m :
        IF Len(match) < 3 THEN {}
        ELSE IF StartsWith(m, <<"h", "t", "t", "p">>) THEN { m }
        ELSE IF StartsWith(m, <<"/", "b", "l", "o", "g", "/">>) THEN { base \o m }
        ELSE IF StartsWith(m, <<"b", "l", "o", "g", "/">>) THEN { base \o <<"/">> \o m }
        ELSE IF Contains(m, <<"b", "l", "o", "g">>) /\ ~HasChar(m, "/")
        THEN { base \o <<"/", "b", "l", "o", "g", "/">> \o m }
        ELSE {})

\* extract_links_from_network, the final filter for one collected link
network_filtered(link, u) ==
    With(urlparse(u), LAMBDA parsed :
    With(parsed.scheme \o <<":", "/", "/">> \o parsed.netloc, LAMBDA base_url_ :
    With(domain_clean(urlparse(link).netloc), LAMBDA link_domain :
        IF /\ ~\E unwanted \in unwanted_network : Contains(Lower(link), unwanted)
           /\ Contains(link, <<"/", "b", "l", "o", "g", "/">>)
           /\ link # base_url_ \o <<"/", "b", "l", "o", "g">>
           /\ (Len(link_domain) = 0 \/ link_domain = domain_clean(parsed.netloc))
        THEN { link }
        ELSE {})))

\* extract_links_from_network, the fallback over the anchors of the page
network_static_link(link, u) ==
    IF /\ Len(link) > 0
       /\ Contains(link, domain_clean(urlparse(u).netloc))
       /\ Contains(link, <<"/", "b", "l", "o", "g", "/">>)
    THEN network_filtered(link, u)
    ELSE {}

StrategyIdle ==
    /\ spc = "idle"
    /\ strategy = "none"
    /\ target_url = <<>>
    /\ strategy_links = {}
    /\ pw_discovered_urls = {}
    /\ same_domain_tests = {}

\* extract_links_from_html: one match of the href patterns
HtmlHref ==
    /\ strategy = "html"
    /\ spc = "extracting"
    /\ \E href \in Hrefs :
          /\ strategy_links' = strategy_links \cup html_href(href, target_url)
          /\ same_domain_tests' = same_domain_tests \cup html_domain_test(href, target_url)
    /\ UNCHANGED <<spc, strategy, target_url, pw_discovered_urls,
                   norm_vars, crawl_vars, hybrid_vars, cached_vars, walk_vars, probe_vars>>

\* extract_static_links: one anchor with an href
StaticAnchor ==
    /\ strategy = "static"
    /\ spc = "extracting"
    /\ \E href \in Hrefs :
          /\ strategy_links' = strategy_links \cup static_anchor(href, target_url)
          /\ same_domain_tests' = same_domain_tests \cup static_domain_test(href, target_url)
    /\ UNCHANGED <<spc, strategy, target_url, pw_discovered_urls,
                   norm_vars, crawl_vars, hybrid_vars, cached_vars, walk_vars, probe_vars>>

\* extract_nextjs_data: one string value met by walk_json
NextjsValue ==
    /\ strategy = "nextjs"
    /\ spc = "extracting"
    /\ \E v \in JsonValues : strategy_links' = strategy_links \cup nextjs_value(v, target_url)
    /\ UNCHANGED <<spc, strategy, target_url, pw_discovered_urls, same_domain_tests,
                   norm_vars, crawl_vars, hybrid_vars, cached_vars, walk_vars, probe_vars>>

\* extract_dynamic_links, Method 3a: one anchor of the rendered page
DynamicDomLink ==
    /\ strategy = "dynamic"
    /\ spc = "extracting"
    /\ \E link \in DomLinks :
          strategy_links' = strategy_links \cup dynamic_dom_link(link, target_url)
    /\ UNCHANGED <<spc, strategy, target_url, pw_discovered_urls, same_domain_tests,
                   norm_vars, crawl_vars, hybrid_vars, cached_vars, walk_vars, probe_vars>>

\* extract_dynamic_links, Method 3b: the probed element is an anchor with an
\* href, which is added without a click
DynamicAnchorHref ==
    /\ strategy = "dynamic"
    /\ spc = "extracting"
    /\ \E href \in DomLinks : strategy_links' = strategy_links \cup { normalize_url(href) }
    /\ UNCHANGED <<spc, strategy, target_url, pw_discovered_urls, same_domain_tests,
                   norm_vars, crawl_vars, hybrid_vars, cached_vars, walk_vars, probe_vars>>

\* extract_dynamic_links, Method 3b: the probed element is clicked and the
\* URL of the page is read afterwards
DynamicClick ==
    /\ strategy = "dynamic"
    /\ spc = "extracting"
    /\ \E after_url \in NavigationUrls \cup {target_url} :
          LET before_url == target_url
          IN  strategy_links' = IF after_url # before_url
                                THEN strategy_links \cup { normalize_url(after_url) }
                                ELSE strategy_links
    /\ UNCHANGED <<spc, strategy, target_url, pw_discovered_urls, same_domain_tests,
                   norm_vars, crawl_vars, hybrid_vars, cached_vars, walk_vars, probe_vars>>

\* extract_links_with_playwright: one click of the probing loop
PlaywrightClick ==
    /\ strategy = "playwright"
    /\ spc = "extracting"
    /\ \E after_url \in NavigationUrls \cup {target_url} :
          LET before_url == target_url
          IN  pw_discovered_urls' = IF after_url # before_url /\ after_url # target_url
                                    THEN pw_discovered_urls \cup { after_url }
                                    ELSE pw_discovered_urls
    /\ UNCHANGED <<spc, strategy, target_url, strategy_links, same_domain_tests,
                   norm_vars, crawl_vars, hybrid_vars, cached_vars, walk_vars, probe_vars>>

\* extract_links_with_playwright: the URLs found by clicks are added
PlaywrightAddDiscovered ==
    /\ strategy = "playwright"
    /\ spc = "extracting"
    /\ strategy_links' = strategy_links \cup { normalize_url(u) : u \in pw_discovered_urls }
    /\ spc' = "links"
    /\ UNCHANGED <<strategy, target_url, pw_discovered_urls, same_domain_tests,
                   norm_vars, crawl_vars, hybrid_vars, cached_vars, walk_vars, probe_vars>>

\* extract_links_with_playwright: one link collected from the rendered page
PlaywrightLink ==
    /\ strategy = "playwright"
    /\ spc = "links"
    /\ \E link \in DomLinks :
          strategy_links' = strategy_links \cup playwright_link(link, target_url)
    /\ UNCHANGED <<spc, strategy, target_url, pw_discovered_urls, same_domain_tests,
                   norm_vars, crawl_vars, hybrid_vars, cached_vars, walk_vars, probe_vars>>

\* extract_links_from_network: one anchor of the rendered page
NetworkStaticLink ==
    /\ strategy = "network"
    /\ spc = "extracting"
    /\ \E link \in DomLinks :
          strategy_links' = strategy_links \cup network_static_link(link, target_url)
    /\ UNCHANGED <<spc, strategy, target_url, pw_discovered_urls, same_domain_tests,
                   norm_vars, crawl_vars, hybrid_vars, cached_vars, walk_vars, probe_vars>>

\* extract_links_from_network: one match in a captured API response
NetworkMatch ==
    /\ strategy = "network"
    /\ spc = "extracting"
    /\ \E match \in Matches :
          \E parsed \in {urlparse(target_url)} :
              strategy_links' = strategy_links \cup
                  UNION { network_filtered(link, target_url) :
                              link \in process_match(match,
                                  parsed.scheme \o <<":", "/", "/">> \o parsed.netloc) }
    /\ UNCHANGED <<spc, strategy, target_url, pw_discovered_urls, same_domain_tests,
                   norm_vars, crawl_vars, hybrid_vars, cached_vars, walk_vars, probe_vars>>

\* the strategy returns its links
StrategyReturn ==
    /\ \/ strategy \in {"html", "static", "nextjs", "dynamic", "network"} /\ spc = "extracting"
       \/ strategy = "playwright" /\ spc = "links"
    /\ spc' = "returned"
    /\ UNCHANGED <<strategy, target_url, strategy_links, pw_discovered_urls, same_domain_tests,
                   norm_vars, crawl_vars, hybrid_vars, cached_vars, walk_vars, probe_vars>>

(***************************************************************************)
(* extract_links_from_bundle (scraper_bundle.py): the slugs found in the   *)
(* script payloads of a page and the URLs built from them.                 *)
(***************************************************************************)

\* the characters that \s matches in the payloads of this model
whitespace ==
    {" ", "\t", "\n", "\r", "\f"}

\* the characters of the class ["\']
quotes ==
    {"\"", "'"}

\* the index of the first character of s at or after index i that is in the
\* set chars, 0 when there is none
FirstIn(s, i, chars) ==
    With({k \in i..Len(s) : s[k] \in chars}, LAMBDA K :
        IF K = {} THEN 0 ELSE CHOOSE k \in K : \A j \in K : k <= j)

\* the index of the first character of s at or after index i that is not in
\* the set chars, 0 when there is none
FirstNotIn(s, i, chars) ==
    With({k \in i..Len(s) : s[k] \notin chars}, LAMBDA K :
        IF K = {} THEN 0 ELSE CHOOSE k \in K : \A j \in K : k <= j)

\* the part ["\']slug["\']:\s*["\']([^"\']{5,50})["\'][^}]*?\} of Pattern 2,
\* matched at index j of content with re.IGNORECASE: the group and the index
\* of the closing brace, or stop = 0 when it does not match.  \s* and the group
\* are greedy and each is followed by a character outside its class, so the
\* longest run is the only candidate.
slug_field_at(content, j) ==
    IF ~(/\ j + 6 <= Len(content)
         /\ content[j] \in quotes
         /\ Lower(SubSeq(content, j + 1, j + 4)) = <<"s", "l", "u", "g">>
         /\ content[j + 5] \in quotes
         /\ content[j + 6] = ":")
    THEN [slug |-> <<>>, stop |-> 0]
    ELSE With(FirstNotIn(content, j + 7, whitespace), LAMBDA open :
           IF open = 0 \/ content[open] \notin quotes
           THEN [slug |-> <<>>, stop |-> 0]
           ELSE With(FirstIn(content, open + 1, quotes), LAMBDA close :
                  IF close = 0 \/ close - open - 1 < 5 \/ close - open - 1 > 50
                  THEN [slug |-> <<>>, stop |-> 0]
                  ELSE [slug |-> SubSeq(content, open + 1, close - 1),
                        stop |-> FirstIn(content, close + 1, {"}"})]))

\* Pattern 2 matched at the brace at index i: \{[^}]*? takes the fewest
\* characters other than } after which the rest matches
post_object_at(content, i) ==
    IF content[i] # "{"
    THEN [slug |-> <<>>, stop |-> 0]
    ELSE With({j \in (i + 1)..Len(content) :
                 /\ FirstIn(SubSeq(content, i + 1, j - 1), 1, {"}"}) = 0
                 /\ slug_field_at(content, j).stop # 0}, LAMBDA J :
            IF J = {}
            THEN [slug |-> <<>>, stop |-> 0]
            ELSE slug_field_at(content, CHOOSE j \in J : \A k \in J : j <= k))

RECURSIVE post_object_matches(_, _)
\* re.findall of Pattern 2 from index pos on: the groups of the matches, which
\* do not overlap, from left to right
post_object_matches(content, pos) ==
    With({i \in pos..Len(content) : post_object_at(content, i).stop # 0}, LAMBDA I :
        IF I = {} THEN <<>>
        ELSE With(post_object_at(content, CHOOSE i \in I : \A k \in I : i <= k),
                  LAMBDA match :
                     <<match.slug>> \o post_object_matches(content, match.stop + 1)))

\* slug_patterns: the first 20 script sources are read, a payload of fewer
\* than 100 characters is skipped, and a matched slug is kept when it has a
\* hyphen.  The payloads of this model hold no match of the patterns 1, 3, 4.
slug_patterns(scripts) ==
    UNION { { slug \in Range(post_object_matches(scripts[k], 1)) : HasChar(slug, "-") } :
              k \in { k \in 1..Min(20, Len(scripts)) : Len(scripts[k]) >= 100 } }

\* re.sub(r'[^a-zA-Z0-9\-]', '', slug)
clean_slug(slug) ==
    SelectSeq(slug, LAMBDA c : c \in ascii_letters \cup Range(Digits) \cup {"-"})

\* base_url of extract_links_from_bundle: f"{parsed.scheme}://{parsed.netloc}"
bundle_base_url(u) ==
    urlparse(u).scheme \o <<":", "/", "/">> \o urlparse(u).netloc

\* current_path = parsed.path.rstrip('/')
current_path(u) ==
    RStrip(urlparse(u).path, "/")

\* the URL without its fragment: split('#')[0]
without_fragment(u) ==
    Split(u, "#")[1]

\* a constructed URL with the slug taken as it was matched
constructed_url_of_raw_slug(u, slug) ==
    without_fragment(bundle_base_url(u) \o current_path(u) \o <<"/">> \o slug)

\* Step 3: the URL constructed for a slug whose cleaned form is valid
constructed_url(u, slug) ==
    without_fragment(bundle_base_url(u) \o current_path(u) \o <<"/">> \o clean_slug(slug))

\* Step 4: the URL added for the navigation a click was logged with
navigation_url(u, nav_url) ==
    without_fragment(IF StartsWith(nav_url, <<"/">>) THEN bundle_base_url(u) \o nav_url
                     ELSE nav_url)

\* blog_posts at the end of the browser session
blog_posts(u, page) ==
    { constructed_url(u, slug) :
         slug \in { s \in slug_patterns(page.scripts) :
                       Len(clean_slug(s)) >= 5 /\ HasChar(clean_slug(s), "-") } }
    \cup { navigation_url(u, nav_url) :
              nav_url \in { n \in page.navigations :
                               Len(n) > 0 /\ Contains(n, current_path(u)) } }

\* the dict returned by extract_links_from_bundle for a run of the browser:
\* href_links and the constructed URLs that are longer than the page's own
\* URL, or the failure dict of the outer except clause
extract_links_from_bundle(u, run) ==
    IF run.raises # "no"
    THEN [success |-> FALSE, links |-> {}, count |-> 0, error |-> run.raises]
    ELSE With(run.page.href_links \cup
              { post_url \in blog_posts(u, run.page) :
                   /\ post_url # bundle_base_url(u) \o current_path(u)
                   /\ post_url # bundle_base_url(u) \o current_path(u) \o <<"/">>
                   /\ Len(post_url) > Len(bundle_base_url(u) \o current_path(u)) + 1 },
              LAMBDA verified_posts :
                 [success |-> TRUE, links |-> verified_posts,
                  count |-> Cardinality(verified_posts), error |-> "none"])

(***************************************************************************)
(* The pages and requests of the model, and the endpoint                   *)
(* extract_links_cached (main.py).                                         *)
(***************************************************************************)

\* the most requests the endpoint receives
MaxRequests == 2

\* str(request.url) of the requests
RequestUrls ==
    { <<"h", "t", "t", "p", "s", ":", "/", "/", "x", ".", "c", "o", "m", "/", "b", "l", "o", "g">>,
      <<"h", "t", "t", "p", "s", ":", "/", "/", "x", ".", "c", "o", "m", "/", "b", "l", "o", "g", "/">>,
      <<"h", "t", "t", "p", "s", ":", "/", "/", "y", ".", "c", "o", "m", "/">> }

\* a script payload that is an object literal with a slug field
SlugObject(slug) ==
    <<"{", "\"", "s", "l", "u", "g", "\"", ":", "\"">> \o slug \o <<"\"", "}">>

\* the payload extended to n characters by statements that follow it
Padded(payload, n) ==
    payload \o [k \in 1..(n - Len(payload)) |-> ";"]

\* the slug of the scenario
PostSlug ==
    <<"m", "y", "-", "p", "o", "s", "t", "-", "t", "i", "t", "l", "e">>

\* the slug values of the payloads: two with a hyphen, the second with a
\* character that clean_slug removes, and one without a hyphen
Slugs ==
    { PostSlug,
      <<"m", "y", "_", "p", "o", "s", "t", "-", "t", "i", "t", "l", "e">>,
      <<"t", "i", "t", "l", "e">> }

\* the script payloads: the object literal alone, extended to 99 and to 100
\* characters, with the key in upper case and a space after the colon, and
\* inside another object literal that has a slug field of its own
Payloads ==
    { Padded(SlugObject(slug), 100) : slug \in Slugs }
    \cup { SlugObject(PostSlug), Padded(SlugObject(PostSlug), 99) }
    \cup { Padded(<<"{", "'", "S", "L", "U", "G", "'", ":", " ", "'">>
                  \o PostSlug
                  \o <<"'", "}">>, 100),
           Padded(<<"{", "\"", "s", "l", "u", "g", "\"", ":", "\"", "a", "b", "-", "c", "d",
                    "\"", ",", "\"", "n", "\"", ":">>
                  \o SlugObject(PostSlug)
                  \o <<"}">>, 100) }

\* what the browser finds on the page: the script sources in document order,
\* the same-host links of the anchors, the URLs of the logged navigations.
\* A page has one of the payloads as its only script or as its 21st script,
\* or it has no script, a link and a navigation.
Pages ==
    { [scripts |-> <<payload>>, href_links |-> {}, navigations |-> {}] :
         payload \in Payloads }
    \cup { [scripts |-> [k \in 1..20 |-> Padded(<<>>, 100)] \o <<payload>>,
            href_links |-> {}, navigations |-> {}] :
              payload \in { Padded(SlugObject(slug), 100) : slug \in {PostSlug} } }
    \cup { [scripts |-> <<>>,
            href_links |-> {<<"h", "t", "t", "p", "s", ":", "/", "/", "x", ".", "c", "o", "m",
                              "/", "a", "b", "o", "u", "t">>},
            navigations |-> {<<"/", "b", "l", "o", "g", "/", "f", "r", "o", "m", "-", "c",
                               "l", "i", "c", "k", "#", "t", "o", "p">>}] }

\* a page without a script, a link or a navigation
EmptyPage ==
    [scripts |-> <<>>, href_links |-> {}, navigations |-> {}]

\* a run of the browser on the page: it goes through, or the navigation to
\* the page raises; every exception of the body, of the launch and of the
\* write of the debug file included, reaches the same except clause
BundleRuns ==
    [raises : {"no", "goto"}, page : {site_page}]

\* urlparse(u).hostname: the netloc without userinfo and port, in lower case
hostname(u) ==
    With(Split(urlparse(u).netloc, "@"), LAMBDA userinfo_host :
        Lower(Split(userinfo_host[Len(userinfo_host)], ":")[1]))

\* a response model without links, with the given error
response_without_links(error) ==
    [success |-> FALSE, links |-> {}, count |-> 0, error |-> error]

\* links.json of a hostname: absent, or present and then readable by
\* json.load or not, with the dict it holds
NoFile ==
    [exists |-> FALSE, readable |-> FALSE, data |-> response_without_links("none")]

CorruptFile ==
    [exists |-> TRUE, readable |-> FALSE, data |-> response_without_links("none")]

FileOf(result) ==
    [exists |-> TRUE, readable |-> TRUE, data |-> result]

\* the file the handler finds for a hostname
cache_file(host) ==
    IF host \in DOMAIN cache_files THEN cache_files[host] ELSE NoFile

\* a request at the entry of the handler
received(u) ==
    [url |-> u, pc |-> "received", lookup |-> "none", found |-> NoFile,
     done_before |-> {}, raises |-> "none",
     response |-> response_without_links("none")]

\* json.dump of a result that does not look at its success
cache_after_any_result(host, result) ==
    [h \in DOMAIN cache_files \cup {host} |->
        IF h = host THEN FileOf(result) ELSE cache_files[h]]

\* the cache after the extraction: links.json is written if result["success"]
cache_after(host, result) ==
    IF result.success
    THEN [h \in DOMAIN cache_files \cup {host} |->
             IF h = host THEN FileOf(result) ELSE cache_files[h]]
    ELSE cache_files

CachedIdle ==
    /\ site_page = EmptyPage
    /\ cache_files = <<>>
    /\ requests = <<>>
    /\ extractor_calls = <<>>

\* a request arrives and the handler runs up to its first await: without a
\* hostname the failure response; with a cache file that json.load reads, its
\* content; otherwise, the file being absent or corrupt, the call of
\* extract_links_from_bundle
CachedRequest ==
    /\ Len(requests) < MaxRequests
    /\ \E u \in RequestUrls :
          \E host \in {hostname(u)} :
             \E found \in {cache_file(host)} :
                \E done \in {{ q \in DOMAIN requests : requests[q].pc = "done" }} :
                   IF Len(host) = 0
                   THEN /\ requests' =
                              Append(requests,
                                     [received(u) EXCEPT
                                         !.pc = "done",
                                         !.response = response_without_links("Invalid URL")])
                        /\ UNCHANGED extractor_calls
                   ELSE IF found.exists /\ found.readable
                   THEN /\ requests' =
                              Append(requests,
                                     [received(u) EXCEPT !.pc = "done",
                                                         !.lookup = "hit",
                                                         !.found = found,
                                                         !.done_before = done,
                                                         !.response = found.data])
                        /\ UNCHANGED extractor_calls
                   ELSE /\ requests' =
                              Append(requests,
                                     [received(u) EXCEPT !.pc = "extracting",
                                                         !.lookup = "miss",
                                                         !.found = found,
                                                         !.done_before = done])
                        /\ extractor_calls' = Append(extractor_calls, Len(requests) + 1)
    /\ UNCHANGED <<site_page, cache_files, norm_vars, crawl_vars, hybrid_vars, strategy_vars, walk_vars, probe_vars>>

\* extract_links_from_bundle returns: a successful result is written to
\* links.json, and the result is the response
CachedExtract(r) ==
    /\ requests[r].pc = "extracting"
    /\ \E run \in BundleRuns :
          \E result \in {extract_links_from_bundle(requests[r].url, run)} :
             /\ cache_files' = cache_after(hostname(requests[r].url), result)
             /\ requests' = [requests EXCEPT ![r].pc = "done",
                                             ![r].raises = run.raises,
                                             ![r].response = result]
    /\ UNCHANGED <<site_page, extractor_calls, norm_vars, crawl_vars, hybrid_vars, strategy_vars, walk_vars, probe_vars>>
(***************************************************************************)
(* The recursive walks over parsed JSON: walk_json of extract_nextjs_data  *)
(* (scraper_hybrid.py) and extract_urls_from_json (scraper_network.py).    *)
(* A document is a function from node numbers to nodes; node 1 is the      *)
(* value that json.loads returns.  The recursion is a stack of calls: the  *)
(* call on top runs, and the calls it makes are put on top of the stack in *)
(* the order of the loop.  The links go into a set, so that the order in   *)
(* which a dict's own strings and its nested values are met has no effect. *)
(***************************************************************************)

\* the deepest nesting of the documents of the model
MaxNesting == 12

\* depth > 10 of walk_json
walk_json_max_depth == 10

\* depth > 5 of extract_urls_from_json
extract_urls_max_depth == 5

\* the url argument of the strategies that walk a document
WalkUrl ==
    <<"h", "t", "t", "p", "s", ":", "/", "/", "a", ".", "c", "o", "m", "/", "b", "l", "o", "g">>

\* the string a document holds at nesting level i
LevelText(i) ==
    <<"/", "b", "l", "o", "g", "/", "p", "-", LowerCase[i + 1]>>

\* the shapes of the documents: the kind of the container at each level
LevelKinds ==
    { [i \in 0..MaxNesting |-> "dict"],
      [i \in 0..MaxNesting |-> IF i % 2 = 0 THEN "dict" ELSE "list"],
      [i \in 0..MaxNesting |-> IF i % 3 = 2 THEN "dict" ELSE "list"] }

\* a document of n + 1 containers nested in one another: the container of
\* level i is node 2i + 1 and holds the string node 2i + 2, under the key
\* href when it is a dict, and then the container of level i + 1, under the
\* key url when it is a dict
Document(n, kinds) ==
    [k \in 1..(2 * n + 2) |->
        IF k % 2 = 1
        THEN [kind |-> kinds[(k - 1) \div 2],
              key |-> IF k > 1 /\ kinds[(k - 3) \div 2] = "dict" THEN "url" ELSE "",
              items |-> IF (k - 1) \div 2 < n THEN <<k + 1, k + 2>> ELSE <<k + 1>>,
              text |-> <<>>]
        ELSE [kind |-> "str",
              key |-> IF kinds[(k - 2) \div 2] = "dict" THEN "href" ELSE "",
              items |-> <<>>,
              text |-> LevelText((k - 2) \div 2)]]

Documents ==
    { Document(n, kinds) : n \in 0..MaxNesting, kinds \in LevelKinds }

\* the depth test that lets one more level pass
depth_exceeded_one_later(name, depth) ==
    IF name = "walk_json" THEN depth > walk_json_max_depth + 1
    ELSE depth > extract_urls_max_depth + 1

\* the depth test at the head of the two functions
depth_exceeded(name, depth) ==
    IF name = "walk_json" THEN depth > walk_json_max_depth
    ELSE depth > extract_urls_max_depth

\* the keys walk_json looks for
link_keys ==
    {"slug", "path", "href", "url"}

\* extract_urls_from_json: the links added for a string value of a dict
network_json_value(v, u) ==
    With(urlparse(u), LAMBDA parsed :
        IF /\ Contains(Lower(v), <<"b", "l", "o", "g">>)
           /\ \/ StartsWith(v, <<"/">>)
              \/ StartsWith(v, <<"h", "t", "t", "p">>)
              \/ (Len(v) > 3 /\ Len(v) < 100 /\ HasChar(v, "-"))
        THEN process_match(v, parsed.scheme \o <<":", "/", "/">> \o parsed.netloc)
        ELSE {})

\* the links one call adds: for a dict, those of its string values; walk_json
\* reads the strings under a link key, extract_urls_from_json every string
links_of_call(name, doc, node) ==
    IF doc[node].kind # "dict" THEN {}
    ELSE UNION { IF name = "walk_json"
                 THEN (IF doc[v].key \in link_keys THEN nextjs_value(doc[v].text, WalkUrl)
                       ELSE {})
                 ELSE network_json_value(doc[v].text, WalkUrl) :
                    v \in { v \in Range(doc[node].items) : doc[v].kind = "str" } }

\* the calls one call makes, in the order of its loop: for a dict on the
\* values that are a dict or a list, for a list on every item
calls_of_call(doc, node, depth) ==
    IF doc[node].kind = "dict"
    THEN [i \in 1..Len(SelectSeq(doc[node].items, LAMBDA v : doc[v].kind # "str")) |->
             [node |-> SelectSeq(doc[node].items, LAMBDA v : doc[v].kind # "str")[i],
              depth |-> depth + 1]]
    ELSE IF doc[node].kind = "list"
    THEN [i \in 1..Len(doc[node].items) |-> [node |-> doc[node].items[i], depth |-> depth + 1]]
    ELSE <<>>

WalkIdle ==
    /\ wpc = "idle"
    /\ walker = "none"
    /\ json_data = <<>>
    /\ calls = <<>>
    /\ walk_links = {}
    /\ walked = {}

\* the call on top of the stack returns at once: its depth is over the limit
WalkTooDeep ==
    /\ wpc = "walking"
    /\ Len(calls) > 0
    /\ depth_exceeded(walker, calls[1].depth)
    /\ calls' = Tail(calls)
    /\ UNCHANGED <<wpc, walker, json_data, walk_links, walked,
                   norm_vars, crawl_vars, hybrid_vars, strategy_vars, cached_vars, probe_vars>>

\* the call on top of the stack runs its loop
WalkCall ==
    /\ wpc = "walking"
    /\ Len(calls) > 0
    /\ ~depth_exceeded(walker, calls[1].depth)
    /\ walk_links' = walk_links \cup links_of_call(walker, json_data, calls[1].node)
    /\ calls' = calls_of_call(json_data, calls[1].node, calls[1].depth) \o Tail(calls)
    /\ walked' = walked \cup {calls[1]}
    /\ UNCHANGED <<wpc, walker, json_data,
                   norm_vars, crawl_vars, hybrid_vars, strategy_vars, cached_vars, probe_vars>>

\* the outermost call has returned
WalkReturn ==
    /\ wpc = "walking"
    /\ Len(calls) = 0
    /\ wpc' = "done"
    /\ UNCHANGED <<walker, json_data, calls, walk_links, walked,
                   norm_vars, crawl_vars, hybrid_vars, strategy_vars, cached_vars, probe_vars>>

(***************************************************************************)
(* The probing loops of the runtime strategies: extract_dynamic_links      *)
(* (scraper_hybrid.py), extract_links_from_bundle (scraper_bundle.py) and  *)
(* extract_links_with_playwright (scraper_playwright.py).  The loop takes  *)
(* the elements of the page one after the other; a click leaves the page   *)
(* where it is or navigates, and it returns or raises.                     *)
(***************************************************************************)

\* the most elements a page offers to the loop
MaxProbes == 3

\* clickable_elements[:3] of extract_links_from_bundle
bundle_click_limit == 3

\* the URL the page was loaded at
ProbeUrl ==
    <<"h", "t", "t", "p", "s", ":", "/", "/", "a", ".", "c", "o", "m", "/", "b", "l", "o", "g">>

\* a click: whether it navigates, and to which URL, and whether the call
\* raises (the timeout of the click runs out while the navigation goes on,
\* or the element cannot be clicked)
Clicks ==
    [navigates : BOOLEAN, to : NavigationUrls, raises : BOOLEAN]

\* the number of elements the loop takes
probe_limit(name, elements) ==
    IF name = "bundle" THEN Min(bundle_click_limit, elements) ELSE elements

\* page.url after the click
url_after(click, current) ==
    IF click.navigates THEN click.to ELSE current

\* what follows a click: the next element, or the navigation back.
\* extract_dynamic_links goes back at the head of the next iteration;
\* extract_links_from_bundle calls page.goto(url) when nothing raised;
\* extract_links_with_playwright calls page.go_back() when nothing raised
\* and the URL has changed and is not the url argument
after_click(name, click, before, target) ==
    IF name = "dynamic" THEN "next"
    ELSE IF click.raises THEN "next"
    ELSE IF name = "bundle" THEN "return"
    ELSE IF url_after(click, before) # before /\ url_after(click, before) # target
    THEN "return"
    ELSE "next"

ProbeIdle ==
    /\ ppc = "idle"
    /\ prober = "none"
    /\ elements_found = 0
    /\ page_url = <<>>
    /\ click_before_url = <<>>
    /\ probe_index = 0
    /\ click_log = <<>>

\* the head of an iteration of extract_dynamic_links: the page is not at
\* original_url and page.goto(original_url) brings it back, or raises, and
\* then the element is left out
ProbeGoBackFirst ==
    /\ ppc = "next"
    /\ prober = "dynamic"
    /\ probe_index < probe_limit(prober, elements_found)
    /\ page_url # ProbeUrl
    /\ \E goto_raises \in BOOLEAN :
          IF goto_raises
          THEN /\ probe_index' = probe_index + 1
               /\ UNCHANGED page_url
          ELSE /\ page_url' = ProbeUrl
               /\ UNCHANGED probe_index
    /\ UNCHANGED <<ppc, prober, elements_found, click_before_url, click_log,
                   norm_vars, crawl_vars, hybrid_vars, strategy_vars, cached_vars, walk_vars>>

\* the element is not visible, or it is an anchor whose href is taken without
\* a click: the loop goes to the next element
ProbeSkip ==
    /\ ppc = "next"
    /\ prober \in {"dynamic", "bundle"}
    /\ probe_index < probe_limit(prober, elements_found)
    /\ prober = "dynamic" => page_url = ProbeUrl
    /\ probe_index' = probe_index + 1
    /\ UNCHANGED <<ppc, prober, elements_found, page_url, click_before_url, click_log,
                   norm_vars, crawl_vars, hybrid_vars, strategy_vars, cached_vars, walk_vars>>

\* the element is clicked
ProbeClick ==
    /\ ppc = "next"
    /\ probe_index < probe_limit(prober, elements_found)
    /\ prober = "dynamic" => page_url = ProbeUrl
    /\ \E click \in Clicks :
          /\ click_log' = Append(click_log, [element |-> probe_index + 1, at |-> page_url])
          /\ click_before_url' = page_url
          /\ page_url' = url_after(click, page_url)
          /\ ppc' = after_click(prober, click, page_url, ProbeUrl)
          /\ probe_index' = IF after_click(prober, click, page_url, ProbeUrl) = "next"
                            THEN probe_index + 1 ELSE probe_index
    /\ UNCHANGED <<prober, elements_found,
                   norm_vars, crawl_vars, hybrid_vars, strategy_vars, cached_vars, walk_vars>>

\* the navigation back after a click: page.goto(url) of the bundle strategy,
\* page.go_back() of the Playwright strategy; when it raises the page stays
\* where it is and the loop goes on
ProbeReturn ==
    /\ ppc = "return"
    /\ \E back_raises \in BOOLEAN :
          page_url' = IF back_raises THEN page_url
                      ELSE IF prober = "bundle" THEN ProbeUrl
                      ELSE click_before_url
    /\ probe_index' = probe_index + 1
    /\ ppc' = "next"
    /\ UNCHANGED <<prober, elements_found, click_before_url, click_log,
                   norm_vars, crawl_vars, hybrid_vars, strategy_vars, cached_vars, walk_vars>>

\* the loop has taken its last element
ProbeEnd ==
    /\ ppc = "next"
    /\ probe_index >= probe_limit(prober, elements_found)
    /\ ppc' = "done"
    /\ UNCHANGED <<prober, elements_found, page_url, click_before_url, probe_index, click_log,
                   norm_vars, crawl_vars, hybrid_vars, strategy_vars, cached_vars, walk_vars>>


(***************************************************************************)
(* The specifications: one per component.  The variables of the other      *)
(* components stay at their idle values.                                   *)
(***************************************************************************)

InitNorm ==
    /\ npc = "input"
    /\ parts \in NormParts
    /\ url = Compose(parts)
    /\ normalized = <<>>
    /\ renormalized = <<>>
    /\ variant = <<>>
    /\ variant_normalized = <<>>
    /\ CrawlIdle
    /\ HybridIdle
    /\ StrategyIdle
    /\ CachedIdle
    /\ WalkIdle
    /\ ProbeIdle

NextNorm ==
    \/ Normalize
    \/ Renormalize
    \/ NormalizeVariant

SpecNorm ==
    InitNorm /\ [][NextNorm]_vars

\* the constructors: base_url.rstrip('/'), empty sets, empty log
InitCrawl ==
    /\ scraper \in {"advanced", "python"}
    /\ cpc = "init"
    /\ \E seed \in CrawlSeeds : base_url = RStrip(seed, "/")
    /\ max_depth \in 0..MaxDepthBound
    /\ visited_urls = {}
    /\ discovered_urls = {}
    /\ downloaded_files = <<>>
    /\ current_depth = 0
    /\ urls_at_depth = {}
    /\ tasks = <<>>
    /\ stack = <<>>
    /\ fetch_log = <<>>
    /\ surplus = {}
    /\ served = <<>>
    /\ selected = {}
    /\ failed = {}
    /\ NormIdle
    /\ HybridIdle
    /\ StrategyIdle
    /\ CachedIdle
    /\ WalkIdle
    /\ ProbeIdle

NextCrawl ==
    \/ StartSession
    \/ SelectBatch
    \/ LoopExit
    \/ GatherDone
    \/ Finish
    \/ \E u \in DOMAIN tasks : DownloadSkip(u)
    \/ \E u \in DOMAIN tasks : DownloadStart(u)
    \/ \E u \in DOMAIN tasks : DownloadError(u)
    \/ \E u \in DOMAIN tasks : DownloadLeaf(u)
    \/ \E u \in DOMAIN tasks : DownloadExtract(u)
    \/ \E u \in DOMAIN tasks : DownloadExtractError(u)
    \/ PyScrape
    \/ PyError
    \/ PyLeaf
    \/ PyExtract
    \/ PyFollow
    \/ PyReturn

SpecCrawl ==
    InitCrawl /\ [][NextCrawl]_vars

\* the event loop runs every coroutine that can run, and every request ends:
\* with its response, with an exception or with the timeout of the session
SpecCrawlFair ==
    InitCrawl /\ [][NextCrawl]_vars /\ WF_vars(NextCrawl)

\* the head of extract_links_hybrid: an empty set and two empty lists
InitHybrid ==
    /\ hpc = "static"
    /\ static_result = NoResult
    /\ nextjs_result = NoResult
    /\ dynamic_result = NoResult
    /\ all_links = {}
    /\ methods_used = <<>>
    /\ errors = <<>>
    /\ call_log = <<>>
    /\ hybrid_result = NoResult
    /\ NormIdle
    /\ CrawlIdle
    /\ StrategyIdle
    /\ CachedIdle
    /\ WalkIdle
    /\ ProbeIdle

NextHybrid ==
    \/ HybridStatic
    \/ HybridNextjs
    \/ HybridDynamic
    \/ HybridSkipDynamic
    \/ HybridReturn

SpecHybrid ==
    InitHybrid /\ [][NextHybrid]_vars

\* a strategy is called on a URL: its set of links is empty
InitStrategy ==
    /\ spc = "extracting"
    /\ strategy \in {"html", "static", "nextjs", "dynamic", "playwright", "network"}
    /\ target_url \in StrategyUrls
    /\ strategy_links = {}
    /\ pw_discovered_urls = {}
    /\ same_domain_tests = {}
    /\ NormIdle
    /\ CrawlIdle
    /\ HybridIdle
    /\ CachedIdle
    /\ WalkIdle
    /\ ProbeIdle

NextStrategy ==
    \/ HtmlHref
    \/ StaticAnchor
    \/ NextjsValue
    \/ DynamicDomLink
    \/ DynamicAnchorHref
    \/ DynamicClick
    \/ PlaywrightClick
    \/ PlaywrightAddDiscovered
    \/ PlaywrightLink
    \/ NetworkStaticLink
    \/ NetworkMatch
    \/ StrategyReturn

SpecStrategy ==
    InitStrategy /\ [][NextStrategy]_vars

\* the page the sites serve, and the output directory at the start of the
\* server: no cache file, or a corrupt file for x.com
InitCached ==
    /\ site_page \in Pages
    /\ cache_files \in { <<>>, [h \in {<<"x", ".", "c", "o", "m">>} |-> CorruptFile] }
    /\ requests = <<>>
    /\ extractor_calls = <<>>
    /\ NormIdle
    /\ CrawlIdle
    /\ HybridIdle
    /\ StrategyIdle
    /\ WalkIdle
    /\ ProbeIdle

NextCached ==
    \/ CachedRequest
    \/ \E r \in DOMAIN requests : CachedExtract(r)

SpecCached ==
    InitCached /\ [][NextCached]_vars

InitWalk ==
    /\ wpc = "walking"
    /\ walker \in {"walk_json", "extract_urls_from_json"}
    /\ json_data \in Documents
    /\ calls = <<[node |-> 1, depth |-> 0]>>
    /\ walk_links = {}
    /\ walked = {}
    /\ NormIdle
    /\ CrawlIdle
    /\ HybridIdle
    /\ StrategyIdle
    /\ CachedIdle
    /\ ProbeIdle

NextWalk ==
    \/ WalkTooDeep
    \/ WalkCall
    \/ WalkReturn

\* the walk is straight-line code of one coroutine: it goes on until the
\* outermost call returns
SpecWalk ==
    InitWalk /\ [][NextWalk]_vars /\ WF_vars(NextWalk)

InitProbe ==
    /\ ppc = "next"
    /\ prober \in {"dynamic", "bundle", "playwright"}
    /\ elements_found \in 0..MaxProbes
    /\ page_url = ProbeUrl
    /\ click_before_url = ProbeUrl
    /\ probe_index = 0
    /\ click_log = <<>>
    /\ NormIdle
    /\ CrawlIdle
    /\ HybridIdle
    /\ StrategyIdle
    /\ CachedIdle
    /\ WalkIdle

NextProbe ==
    \/ ProbeGoBackFirst
    \/ ProbeSkip
    \/ ProbeClick
    \/ ProbeReturn
    \/ ProbeEnd

SpecProbe ==
    InitProbe /\ [][NextProbe]_vars

(***************************************************************************)
(* Properties of the crawl frontiers, checked under SpecCrawl.             *)
(***************************************************************************)

\* C1: within one crawl session no two fetches target URLs with the same
\* canonical form (the form clean_url gives: the URL without its fragment)
C1_EachCanonicalUrlFetchedOnce ==
    \A i, j \in DOMAIN fetch_log :
        i # j => clean_url(fetch_log[i].url) # clean_url(fetch_log[j].url)

\* C2: every entry of the fetch log, and every recorded result, has a depth
\* of at most max_depth
C2_DepthWithinMaxDepth ==
    /\ \A i \in DOMAIN fetch_log : fetch_log[i].depth <= max_depth
    /\ \A i \in DOMAIN downloaded_files : downloaded_files[i].depth <= max_depth

\* a finished session with links to follow that fetched a page at the last depth
C2_Witness ==
    /\ cpc = "done"
    /\ max_depth >= 1
    /\ \E i \in DOMAIN fetch_log : fetch_log[i].depth = max_depth
    /\ \E i \in DOMAIN downloaded_files : downloaded_files[i].depth = max_depth

Seed_example ==
    <<"h", "t", "t", "p", "s", ":", "/", "/", "e", "x", "a", "m", "p", "l", "e", ".", "c", "o", "m">>

\* the page of the scenario: anchors /a, /a#frag, the absolute URL of /a with
\* utm_source=x, and a URL of another host
ScenarioBody ==
    { [tag |-> "a", attr |-> <<"/", "a">>],
      [tag |-> "a", attr |-> <<"/", "a", "#", "f", "r", "a", "g">>],
      [tag |-> "a", attr |-> <<"h", "t", "t", "p", "s", ":", "/", "/", "e", "x", "a", "m", "p", "l", "e", ".", "c", "o", "m", "/", "a", "?", "u", "t", "m", "_", "s", "o", "u", "r", "c", "e", "=", "x">>],
      [tag |-> "a", attr |-> <<"h", "t", "t", "p", "s", ":", "/", "/", "o", "t", "h", "e", "r", ".", "c", "o", "m", "/", "b">>] }

\* the AdvancedScraper session of the scenario after the seed page was parsed
ScenarioServed ==
    /\ scraper = "advanced"
    /\ base_url = Seed_example
    /\ max_depth = 1
    /\ base_url \in DOMAIN served
    /\ served[base_url] = ScenarioBody
    /\ \A i \in DOMAIN downloaded_files : ~downloaded_files[i].link_extraction_error

C8_NormalizeIdempotent ==
    npc \in {"renormalized", "compared"} => renormalized = normalized

\* C9: two URLs that differ only in the fragment, in tracking query fields or
\* in one trailing slash on a non-root path normalize to the same string
C9_VariantsNormalizeIdentically ==
    npc = "compared" => variant_normalized = normalized

\* C20: the query of normalize_url(u) holds the name and value pairs of the
\* query of u whose name is not a tracking parameter, each with its value and
\* in the order in which they occur in u, a name that occurs more than once
\* with other names in between included
C20_QueryOrderPreserved ==
    npc \in {"normalized", "renormalized", "compared"} =>
       parse_qsl(urlparse(normalized).query)
          = filtered_params(parse_qsl(urlparse(url).query))

(***************************************************************************)
(* Properties of extract_links_hybrid, checked under SpecHybrid.           *)
(***************************************************************************)

\* the strategy was invoked and returned its failure dict
Failed(result) ==
    result.method # "none" /\ ~result.success

\* the number of calls of a strategy
Calls(name) ==
    Cardinality({ i \in DOMAIN call_log : call_log[i] = name })

\* the number of entries of errors with the given prefix
ErrorEntries(label) ==
    Cardinality({ i \in DOMAIN errors : errors[i][1] = label })

\* the links of the strategies that ran
StrategyLinks ==
    static_result.links \cup nextjs_result.links \cup dynamic_result.links

C6_SuccessIffUnionNonEmpty ==
    hpc = "done" => (hybrid_result.success <=> StrategyLinks # {})

\* a finished call that succeeded on the links of the last strategy alone
C6_Witness ==
    /\ hpc = "done"
    /\ hybrid_result.success
    /\ ~static_result.success
    /\ nextjs_result.links = {}
    /\ dynamic_result.count > 0

\* C7: a failing strategy never makes extract_links_hybrid raise; it adds no
\* link and exactly one entry to errors, the strategies after it are invoked
\* as the escalation rule says, and the links of the other strategies are in
\* the returned dict
C7_StrategyFailureDoesNotAbort ==
    /\ hpc # "raised"
    /\ Failed(static_result) =>
          static_result.links = {} /\ ErrorEntries("Static") = 1
    /\ Failed(nextjs_result) =>
          nextjs_result.links = {} /\ ErrorEntries("Next.js") = 1
    /\ Failed(dynamic_result) =>
          dynamic_result.links = {} /\ ErrorEntries("Dynamic") = 1
    /\ (Failed(static_result) /\ hpc \in {"dynamic", "return", "done"}) =>
          Calls("nextjs") = 1
    /\ ((Failed(static_result) \/ Failed(nextjs_result)) /\ hpc \in {"return", "done"}) =>
          (Calls("dynamic") = 1
              <=> Cardinality(static_result.links \cup nextjs_result.links) < 5)
    /\ hpc = "done" =>
          /\ hybrid_result.returned
          /\ StrategyLinks \subseteq Range(hybrid_result.links)
          /\ Len(hybrid_result.errors) =
                 Cardinality({ r \in {static_result, nextjs_result, dynamic_result} :
                                 Failed(r) })

\* a finished call in which the first strategy failed, the second found links
\* and the navigation of the third failed
C7_Witness ==
    /\ hpc = "done"
    /\ Failed(static_result)
    /\ nextjs_result.count > 0
    /\ Failed(dynamic_result)
    /\ dynamic_result.error = "goto"
    /\ hybrid_result.count = nextjs_result.count

\* C18: in a call of extract_links_hybrid, extract_dynamic_links is invoked,
\* once, exactly when the links of the static and the Next.js strategy
\* together are fewer than 5, and its call comes third, after both of these
\* have returned
C18_DynamicIffUnionBelowFive ==
    /\ Calls("dynamic") <= 1
    /\ Calls("dynamic") = 1 =>
          /\ call_log = <<"static", "nextjs", "dynamic">>
          /\ static_result.returned
          /\ nextjs_result.returned
          /\ Cardinality(static_result.links \cup nextjs_result.links) < 5
    /\ (hpc \in {"return", "done"} /\ Calls("dynamic") = 0) =>
          Cardinality(static_result.links \cup nextjs_result.links) >= 5

\* a finished call in which the two cheaper strategies found 3 links each,
\* 4 together, and the dynamic strategy ran
C18_Witness ==
    /\ hpc = "done"
    /\ static_result.count = 3
    /\ nextjs_result.count = 3
    /\ Cardinality(static_result.links \cup nextjs_result.links) = 4
    /\ call_log = <<"static", "nextjs", "dynamic">>

\* the three strategies in the order of their calls
MethodOrder ==
    <<"static", "nextjs", "dynamic">>

\* the result variable of a strategy
ResultOf(name) ==
    CASE name = "static" -> static_result
      [] name = "nextjs" -> nextjs_result
      [] name = "dynamic" -> dynamic_result

\* the prefix of the entry of errors of a strategy
LabelOf(name) ==
    CASE name = "static" -> "Static"
      [] name = "nextjs" -> "Next.js"
      [] name = "dynamic" -> "Dynamic"

\* C19 as stated: the returned methods_used lists, in the order static,
\* nextjs, dynamic, exactly the strategies that were invoked and returned
\* success; a strategy that failed has an entry in errors and none in
\* methods_used; a strategy that was not invoked has neither
C19_MethodsAreTheSucceeded ==
    hpc = "done" =>
       /\ hybrid_result.methods_used =
             SelectSeq(MethodOrder,
                       LAMBDA n : ResultOf(n).method # "none" /\ ResultOf(n).success)
       /\ \A n \in Range(MethodOrder) :
             /\ Failed(ResultOf(n)) =>
                   /\ ErrorEntries(LabelOf(n)) = 1
                   /\ n \notin Range(hybrid_result.methods_used)
             /\ ResultOf(n).method = "none" =>
                   /\ ErrorEntries(LabelOf(n)) = 0
                   /\ n \notin Range(hybrid_result.methods_used)

\* C19, amended: methods_used lists, in that order, exactly the strategies
\* that were invoked, returned success and returned at least one link; a
\* strategy that succeeded without a link is in neither list
C19_MethodsAreTheContributors ==
    hpc = "done" =>
       /\ hybrid_result.methods_used =
             SelectSeq(MethodOrder,
                       LAMBDA n : /\ ResultOf(n).method # "none"
                                  /\ ResultOf(n).success
                                  /\ ResultOf(n).count > 0)
       /\ \A n \in Range(MethodOrder) :
             /\ Failed(ResultOf(n)) =>
                   /\ ErrorEntries(LabelOf(n)) = 1
                   /\ n \notin Range(hybrid_result.methods_used)
             /\ ResultOf(n).method = "none" =>
                   /\ ErrorEntries(LabelOf(n)) = 0
                   /\ n \notin Range(hybrid_result.methods_used)
             /\ (ResultOf(n).success /\ ResultOf(n).count = 0) =>
                   /\ ErrorEntries(LabelOf(n)) = 0
                   /\ n \notin Range(hybrid_result.methods_used)

\* a finished call in which the static strategy succeeded without a link, the
\* Next.js strategy failed and the dynamic strategy found links
C19_Witness ==
    /\ hpc = "done"
    /\ static_result.success
    /\ static_result.count = 0
    /\ Failed(nextjs_result)
    /\ dynamic_result.count > 0
    /\ hybrid_result.methods_used = <<"dynamic">>
    /\ Len(hybrid_result.errors) = 1

(***************************************************************************)
(* Properties of the link-extraction strategies, checked under             *)
(* SpecStrategy.                                                           *)
(***************************************************************************)

\* the host of a URL in lower case, without a leading www.
host_without_www(u) ==
    With(Lower(urlparse(u).netloc), LAMBDA host :
        IF StartsWith(host, <<"w", "w", "w", ".">>) THEN From(host, 4) ELSE host)

\* C10: no link in the set a strategy returns has a host that differs from the
\* host of the base URL by more than a leading www., links found by a click
\* included
C10_NoCrossHostLink ==
    \A link \in strategy_links : host_without_www(link) = host_without_www(target_url)

(***************************************************************************)
(* Properties of the AdvancedScraper session: termination, the order of    *)
(* the depth levels and the bookkeeping of the frontier.                   *)
(***************************************************************************)

\* C11: a session of scrape_recursive never ends by an exception of a fetch,
\* selects batches at no more than max_depth + 1 depth levels, leaves the loop
\* at a level at which no unvisited discovered URL remains, and under every
\* combination of fetch failures reaches the return of the summary
C11_SessionTerminatesWithSummary ==
    /\ [](scraper = "advanced" => cpc # "raised")
    /\ [](scraper = "advanced" =>
             /\ \A s \in selected : s.depth <= max_depth
             /\ Cardinality({s.depth : s \in selected}) <= max_depth + 1)
    /\ [][(scraper = "advanced" /\ cpc = "loop" /\ UrlsAtDepth = {}) => cpc' = "summary"]_vars
    /\ (scraper = "advanced") ~> (cpc = "done")

\* a finished session with a failed fetch whose loop stopped before the depths
\* were exhausted
C11_Witness ==
    /\ scraper = "advanced"
    /\ cpc = "done"
    /\ failed # {}
    /\ selected # {}
    /\ current_depth <= max_depth
    /\ UrlsAtDepth = {}

\* the fetch e has ended: with a result in downloaded_files or with an error
Completed(e) ==
    \/ e \in failed
    \/ \E k \in 1..Len(downloaded_files) :
          downloaded_files[k].url = e.url /\ downloaded_files[k].depth = e.depth

\* C12: in a session of scrape_recursive every fetch of a depth d has ended
\* when a fetch of a greater depth starts, a fetch starts only for a URL that
\* was put in the batch at the start of the current level, and while a batch
\* runs no URL joins it, the URLs discovered meanwhile included
C12_LevelsStrictlySequential ==
    /\ [](scraper = "advanced" =>
             \A i, j \in 1..Len(fetch_log) :
                fetch_log[i].depth < fetch_log[j].depth => Completed(fetch_log[i]))
    /\ [][(scraper = "advanced" /\ Len(fetch_log') > Len(fetch_log)) =>
             /\ fetch_log'[Len(fetch_log')].depth = current_depth
             /\ fetch_log'[Len(fetch_log')] \in selected]_vars
    /\ [][(scraper = "advanced" /\ cpc = "gather") =>
             /\ DOMAIN tasks' \subseteq DOMAIN tasks
             /\ (discovered_urls' \ discovered_urls) \cap DOMAIN tasks' = {}]_vars

\* a batch of depth 1 with one fetch in flight and one ended, while a URL
\* discovered by this batch waits for the next level
C12_Witness ==
    /\ scraper = "advanced"
    /\ cpc = "gather"
    /\ current_depth = 1
    /\ \E u, v \in DOMAIN tasks :
          /\ tasks[u].pc = "fetching"
          /\ tasks[v].pc = "done"
          /\ Completed([url |-> v, depth |-> 1])
    /\ \E i \in 1..Len(fetch_log) : fetch_log[i].depth = 0
    /\ \E w \in discovered_urls \ visited_urls :
          [url |-> w, depth |-> 0] \notin selected /\ [url |-> w, depth |-> 1] \notin selected

\* C13 as stated: while the coroutines of a batch are in flight neither
\* visited_urls nor discovered_urls changes
C13_SetsUnchangedWhileBatchRuns ==
    [][(scraper = "advanced" /\ cpc = "gather") =>
          UNCHANGED <<visited_urls, discovered_urls>>]_vars

\* C13, amended: the two sets only grow; visited_urls changes only while a
\* batch runs, by a coroutine that adds its own URL when it passes its guard;
\* discovered_urls changes by the coordinating flow only for the base URL
\* before the first batch, and otherwise by a coroutine of the running batch
\* that ends its fetch
C13_SetsGrowByTheCoroutines ==
    [][scraper = "advanced" =>
          /\ visited_urls \subseteq visited_urls'
          /\ discovered_urls \subseteq discovered_urls'
          /\ visited_urls' # visited_urls =>
                /\ cpc = "gather"
                /\ \E u \in DOMAIN tasks :
                      /\ tasks[u].pc = "created"
                      /\ tasks'[u].pc = "fetching"
                      /\ visited_urls' = visited_urls \cup {u}
          /\ discovered_urls' # discovered_urls =>
                \/ cpc = "init" /\ discovered_urls' = discovered_urls \cup {base_url}
                \/ /\ cpc = "gather"
                   /\ \E u \in DOMAIN tasks :
                         /\ tasks[u].pc = "fetching"
                         /\ tasks'[u].pc = "done"]_vars

\* a batch in flight in which one coroutine has marked its URL visited and
\* another has added the links of its page to discovered_urls
C13_Witness ==
    /\ scraper = "advanced"
    /\ cpc = "gather"
    /\ \E u \in DOMAIN tasks :
          /\ tasks[u].pc = "fetching"
          /\ u \in visited_urls
    /\ \E v \in DOMAIN tasks :
          /\ tasks[v].pc = "done"
          /\ v \in DOMAIN served
          /\ \E w \in discovered_urls : w \notin urls_at_depth /\ w \notin visited_urls

\* C14: when the summary is returned, every URL whose fetch ended in an error
\* is in visited_urls, and the list of results of the summary, which is
\* downloaded_files, holds exactly one entry for it, an entry with the error
C14_FailedFetchRecorded ==
    cpc = "done" =>
       \A f \in failed :
          /\ f.url \in visited_urls
          /\ Cardinality({ k \in 1..Len(downloaded_files) :
                              /\ downloaded_files[k].url = f.url
                              /\ downloaded_files[k].status # "success" }) = 1

\* C17: in a session of scrape_recursive, between two batches and after the
\* last one every URL that was put in a batch is in visited_urls, and no URL
\* was put in the batches of two depth levels
C17_SelectedOnceAndVisited ==
    scraper = "advanced" =>
       /\ cpc \in {"loop", "summary", "done"} =>
             \A s \in selected : s.url \in visited_urls
       /\ \A s, t \in selected : s.url = t.url => s.depth = t.depth
(***************************************************************************)
(* Claims about extract_links_from_bundle and extract_links_cached.        *)
(***************************************************************************)

\* the requests that the extractor answered without an error
Extracted ==
    { r \in DOMAIN requests :
         /\ requests[r].pc = "done"
         /\ requests[r].lookup = "miss"
         /\ requests[r].raises = "no" }

\* the slug validation: 5 to 50 characters with a hyphen, and the cleaned
\* slug has at least 5 characters and a hyphen
slug_is_valid(slug) ==
    /\ Len(slug) >= 5
    /\ Len(slug) <= 50
    /\ HasChar(slug, "-")
    /\ Len(clean_slug(slug)) >= 5
    /\ HasChar(clean_slug(slug), "-")

\* C15 as stated: whenever a script payload of the page contains an object
\* literal with a slug field whose value passes the slug validation, the
\* extraction on a page at path P returns the link origin + P + "/" + slug.
C15_AnySlugPayloadYieldsLink ==
    \A r \in Extracted :
       \A k \in DOMAIN site_page.scripts :
          \A slug \in Slugs :
             (/\ Contains(site_page.scripts[k], SlugObject(slug))
              /\ slug_is_valid(slug))
             => bundle_base_url(requests[r].url) \o urlparse(requests[r].url).path
                   \o <<"/">> \o slug
                \in requests[r].response.links

\* C15 amended: when the payload is one of the first 20 scripts of the page,
\* has at least 100 characters, and the object literal is one of the matches
\* that the pattern finds from left to right, with a slug value that passes
\* the slug validation, then an extraction that ends without an error
\* returns the link origin + P without its trailing slashes + "/" + the slug
\* without the characters that are no letter, digit or hyphen; for a page at
\* /blog and the slug my-post-title that link is
\* https://<origin>/blog/my-post-title.
C15_MatchedSlugYieldsCleanedLink ==
    \A r \in Extracted :
       /\ \A k \in 1..Min(20, Len(site_page.scripts)) :
             \A slug \in Range(post_object_matches(site_page.scripts[k], 1)) :
                (/\ Len(site_page.scripts[k]) >= 100
                 /\ slug_is_valid(slug))
                => bundle_base_url(requests[r].url)
                      \o RStrip(urlparse(requests[r].url).path, "/")
                      \o <<"/">> \o clean_slug(slug)
                   \in requests[r].response.links
       /\ (/\ requests[r].url = <<"h", "t", "t", "p", "s", ":", "/", "/", "x", ".", "c", "o",
                                  "m", "/", "b", "l", "o", "g">>
           /\ \E k \in 1..Min(20, Len(site_page.scripts)) :
                 site_page.scripts[k] = Padded(SlugObject(PostSlug), 100))
          => <<"h", "t", "t", "p", "s", ":", "/", "/", "x", ".", "c", "o", "m", "/", "b", "l",
               "o", "g", "/">> \o PostSlug
             \in requests[r].response.links

\* the extraction on the page at /blog whose script, of 100 characters, has
\* the object literal with the slug my-post-title, answered with the link
C15_Witness ==
    \E r \in Extracted :
       /\ requests[r].url = <<"h", "t", "t", "p", "s", ":", "/", "/", "x", ".", "c", "o",
                              "m", "/", "b", "l", "o", "g">>
       /\ site_page.scripts = <<Padded(SlugObject(PostSlug), 100)>>
       /\ requests[r].response.links =
             { <<"h", "t", "t", "p", "s", ":", "/", "/", "x", ".", "c", "o", "m", "/", "b",
                 "l", "o", "g", "/">> \o PostSlug }

\* how often the extractor was invoked for the request r
extractor_invocations(r) ==
    Cardinality({ i \in DOMAIN extractor_calls : extractor_calls[i] = r })

\* the requests for the hostname of r whose handler started after r was
\* answered
later_requests(r) ==
    { q \in DOMAIN requests :
         /\ r \in requests[q].done_before
         /\ hostname(requests[q].url) = hostname(requests[r].url) }

C21_OutputIsCanonical ==
    npc \in {"normalized", "renormalized", "compared"} =>
       /\ ~HasChar(normalized, "#")
       /\ urlparse(normalized).fragment = <<>>
       /\ \A kv \in Range(parse_qsl(urlparse(normalized).query)) :
             Lower(kv[1]) \notin tracking_lower
       /\ url = NormOrigin \o <<"/", "a", "?", "u", "t", "m", "_", "s", "o", "u", "r", "c", "e",
                                "=", "f", "o", "o", "&", "i", "d", "=", "5">>
          => urlparse(normalized).query = <<"i", "d", "=", "5">>
       /\ EndsWith(urlparse(normalized).path, <<"/">>)
          => urlparse(normalized).path = <<"/">>

(***************************************************************************)
(* Further properties of the link-extraction strategies, checked under     *)
(* SpecStrategy.                                                           *)
(***************************************************************************)

\* C22: the same-domain test of the strategies accepts a link if and only if
\* the host of the link equals the host of the base URL once a leading www.
\* is removed from each; a host that differs in another way, by a www. that
\* is not leading for example, is rejected
C22_SameDomainTestIgnoresLeadingWww ==
    \A t \in same_domain_tests :
        t.accepted <=> host_without_www(t.link) = host_without_www(target_url)

\* C23: every link that the bundle, the network-interception and the runtime
\* strategies return is a fixed point of normalize_url, so that no result
\* holds two links with the same canonical form
C23_ReturnedLinksAreCanonical ==
    /\ (spc = "returned" /\ strategy \in {"network", "dynamic", "playwright"})
       => /\ \A link \in strategy_links : normalize_url(link) = link
          /\ \A l1, l2 \in strategy_links :
                normalize_url(l1) = normalize_url(l2) => l1 = l2
    /\ \A r \in Extracted :
          /\ \A link \in requests[r].response.links : normalize_url(link) = link
          /\ \A l1, l2 \in requests[r].response.links :
                normalize_url(l1) = normalize_url(l2) => l1 = l2

(***************************************************************************)
(* The depth limit of the walks over parsed JSON, checked under SpecWalk.  *)
(***************************************************************************)

RECURSIVE NestingDepth(_, _)
\* the number of containers of the document around the node
NestingDepth(doc, node) ==
    IF \A p \in DOMAIN doc : node \notin Range(doc[p].items) THEN 0
    ELSE 1 + NestingDepth(doc, CHOOSE p \in DOMAIN doc : node \in Range(doc[p].items))

\* the dicts of the document that are nested at most max deep
DictsWithin(doc, max) ==
    { d \in DOMAIN doc : doc[d].kind = "dict" /\ NestingDepth(doc, d) <= max }

\* the strings a document holds under a key of one of the dicts
StringsOf(doc, dicts) ==
    { v \in DOMAIN doc :
         /\ doc[v].kind = "str"
         /\ \E d \in dicts : v \in Range(doc[d].items) }

\* C24: the walk over a parsed document (walk_json, extract_urls_from_json)
\* comes to an end, it never runs on a value nested deeper than its limit
\* (10, respectively 5), and at its end the links are those of the
\* link-bearing keys of the dicts nested at most that deep: the keys of
\* deeper dicts are ignored
C24_WalkBoundedByNestingDepth ==
    /\ [](\A c \in walked :
             /\ c.depth = NestingDepth(json_data, c.node)
             /\ c.depth <= (IF walker = "walk_json" THEN 10 ELSE 5))
    /\ [](wpc = "done" =>
             walk_links =
                { <<"h", "t", "t", "p", "s", ":", "/", "/", "a", ".", "c", "o", "m">>
                     \o json_data[v].text :
                     v \in StringsOf(json_data,
                                     DictsWithin(json_data,
                                                 IF walker = "walk_json" THEN 10 ELSE 5)) })
    /\ <>(wpc = "done")

\* walk_json has come to the end of a document of dicts nested 12 deep: the
\* link of the dict at depth 10 is in the result, the link of the dict at
\* depth 11 is not
C24_Witness ==
    /\ wpc = "done"
    /\ walker = "walk_json"
    /\ Len(json_data) >= 24
    /\ \A k \in DOMAIN json_data : json_data[k].kind \in {"dict", "str"}
    /\ <<"h", "t", "t", "p", "s", ":", "/", "/", "a", ".", "c", "o", "m">> \o LevelText(10)
          \in walk_links
    /\ <<"h", "t", "t", "p", "s", ":", "/", "/", "a", ".", "c", "o", "m">> \o LevelText(11)
          \notin walk_links

(***************************************************************************)
(* The probing loops of the runtime strategies, checked under SpecProbe.   *)
(***************************************************************************)

\* C25: every click of a probing loop is issued while the page is at the URL
\* it was loaded at, also when the click before it raised or navigated away
C25_ClicksIssuedAtOriginalUrl ==
    \A i \in DOMAIN click_log : click_log[i].at = ProbeUrl

(***************************************************************************)
(* The sets and the summary of an AdvancedScraper session, checked under   *)
(* SpecCrawl.                                                              *)
(***************************************************************************)

\* AdvancedScraper.get_file_type_and_path: the file type
get_file_type(u) ==
    With(LStrip(RStrip(urlparse(u).path, "/"), "/"), LAMBDA path :
        IF Len(path) = 0 \/ EndsWith(path, <<"/">>) THEN "html"
        ELSE IF EndsWith(path, <<".", "c", "s", "s">>) THEN "css"
        ELSE IF EndsWith(path, <<".", "j", "s">>) THEN "js"
        ELSE IF \E ext \in { <<".", "p", "n", "g">>, <<".", "j", "p", "g">>,
                             <<".", "j", "p", "e", "g">>, <<".", "g", "i", "f">>,
                             <<".", "s", "v", "g">>, <<".", "i", "c", "o">>,
                             <<".", "w", "e", "b", "p">> } : EndsWith(path, ext)
        THEN "image"
        ELSE IF ~HasChar(basename(path), ".") THEN "html"
        ELSE "other")

\* AdvancedScraper._get_files_by_type: the dict of the counts, with the keys
\* that occur; file_type of an entry is the type of its URL
_get_files_by_type ==
    [t \in { get_file_type(downloaded_files[i].url) : i \in DOMAIN downloaded_files } |->
        Cardinality({ i \in DOMAIN downloaded_files :
                         get_file_type(downloaded_files[i].url) = t })]

RECURSIVE SumOfCounts(_, _)
\* the sum of the values of a dict of counts over the given keys
SumOfCounts(counts, keys) ==
    IF keys = {} THEN 0
    ELSE With(CHOOSE k \in keys : TRUE, LAMBDA k :
             counts[k] + SumOfCounts(counts, keys \ {k}))

\* C26: in every state of an AdvancedScraper session visited_urls is a subset
\* of discovered_urls and both sets only grow; in the summary
\* total_files <= |visited_urls| <= total_discovered, and the counts of
\* files_by_type sum to total_files
C26_VisitedWithinDiscoveredAndSummaryCounts ==
    /\ [](scraper = "advanced" => visited_urls \subseteq discovered_urls)
    /\ [][scraper = "advanced" =>
             /\ visited_urls \subseteq visited_urls'
             /\ discovered_urls \subseteq discovered_urls']_vars
    /\ []((scraper = "advanced" /\ cpc \in {"summary", "done"}) =>
             /\ Len(downloaded_files) <= Cardinality(visited_urls)
             /\ Cardinality(visited_urls) <= Cardinality(discovered_urls)
             /\ SumOfCounts(_get_files_by_type, DOMAIN _get_files_by_type)
                   = Len(downloaded_files))

\* a session has returned its summary with two files, a visited URL whose
\* fetch failed and a discovered URL that was not visited
C26_Witness ==
    /\ scraper = "advanced"
    /\ cpc = "done"
    /\ Len(downloaded_files) = 2
    /\ Cardinality(visited_urls) = 3
    /\ Cardinality(discovered_urls) > 3

\* C27: a fetch at depth max_depth, a fetch that fails and a call that
\* should_download turns away leave discovered_urls unchanged: after the
\* seed, URLs enter discovered_urls only when a fetch of HTML at a depth below
\* max_depth ends with a result
C27_OnlyHtmlBelowMaxDepthDiscovers ==
    [][(scraper = "advanced" /\ cpc # "init") =>
          /\ discovered_urls' # discovered_urls =>
                \E u \in DOMAIN tasks :
                   /\ tasks[u].pc = "fetching"
                   /\ tasks'[u].pc = "done"
                   /\ tasks[u].depth < max_depth
                   /\ \E content_type \in ContentTypes : is_html_content(u, content_type)
                   /\ Len(downloaded_files') = Len(downloaded_files) + 1
                   /\ downloaded_files'[Len(downloaded_files')].url = u
                   /\ downloaded_files'[Len(downloaded_files')].status = "success"
          /\ (\E u \in DOMAIN tasks :
                 /\ u \in DOMAIN tasks'
                 /\ tasks'[u] # tasks[u]
                 /\ \/ tasks[u].depth >= max_depth
                    \/ tasks[u].pc = "created"
                    \/ failed' # failed)
             => discovered_urls' = discovered_urls]_vars

\* a session has ended in which a call was turned away by should_download, a
\* fetch failed, a page was fetched at depth max_depth, and links were found
C27_Witness ==
    /\ scraper = "advanced"
    /\ cpc = "done"
    /\ max_depth >= 1
    /\ failed # {}
    /\ \E s \in selected : \A i \in DOMAIN fetch_log : fetch_log[i].url # s.url
    /\ \E i \in DOMAIN downloaded_files : downloaded_files[i].depth = max_depth
    /\ Cardinality(discovered_urls) > 1

\* result.get("links_extracted", 0) of an entry of downloaded_files
links_counted(entry) ==
    IF entry.links_extracted < 0 THEN 0 ELSE entry.links_extracted

RECURSIVE SumOfLinksExtracted(_)
\* the sum of links_extracted over a list of entries
SumOfLinksExtracted(files) ==
    IF Len(files) = 0 THEN 0
    ELSE links_counted(files[1]) + SumOfLinksExtracted(Tail(files))

\* C28: under every interleaving of the fetches of a batch each discovered
\* URL other than the seed is counted as a new link by exactly one entry of
\* downloaded_files: a step adds as many URLs to discovered_urls as the entry
\* it appends counts, and when no link extraction raised an error the sum of
\* links_extracted is |discovered_urls| - 1
C28_EachDiscoveredUrlCountedOnce ==
    /\ []((/\ scraper = "advanced"
           /\ cpc # "init"
           /\ \A i \in DOMAIN downloaded_files : ~downloaded_files[i].link_extraction_error)
          => SumOfLinksExtracted(downloaded_files) = Cardinality(discovered_urls) - 1)
    /\ [][(scraper = "advanced" /\ cpc # "init") =>
             Cardinality(discovered_urls' \ discovered_urls)
                = SumOfLinksExtracted(downloaded_files')
                     - SumOfLinksExtracted(downloaded_files)]_vars

\* a session has ended in which two fetches of one level were served the same
\* markup: the first counted new links, the second counted none
C28_Witness ==
    /\ scraper = "advanced"
    /\ cpc = "done"
    /\ \A i \in DOMAIN downloaded_files : ~downloaded_files[i].link_extraction_error
    /\ \E i, j \in DOMAIN downloaded_files :
          /\ i < j
          /\ downloaded_files[i].depth = downloaded_files[j].depth
          /\ downloaded_files[i].links_extracted > 0
          /\ downloaded_files[j].links_extracted = 0
          /\ served[downloaded_files[i].url] = served[downloaded_files[j].url]


\* the URLs within k links of the seed, following the links of the pages whose
\* markup was parsed
RECURSIVE ReachableWithin(_)
ReachableWithin(k) ==
    IF k = 0
    THEN {base_url}
    ELSE With(ReachableWithin(k - 1), LAMBDA near :
             near \cup UNION { extract_all_links(served[u], u) : u \in near \cap DOMAIN served })

\* should_download without the test on visited_urls
passes_should_download(u) ==
    /\ is_same_domain(u)
    /\ With(Lower(urlparse(u).path), LAMBDA path :
            ~\E pattern \in skip_patterns : Contains(path, pattern))

\* the list of unvisited discovered URLs the loop built at a depth level
LevelUrls(level) ==
    { s.url : s \in { s \in selected \cup surplus : s.depth = level } }

Fetched ==
    { fetch_log[i].url : i \in DOMAIN fetch_log }

RECURSIVE PyReachableWithin(_)
PyReachableWithin(k) ==
    IF k = 0
    THEN {base_url}
    ELSE With(PyReachableWithin(k - 1), LAMBDA near :
             near \cup UNION { { link \in py_extract_links_from_html(served[u], u) :
                                   is_same_domain(link) } : u \in near \cap DOMAIN served })

\* the loop over the links of the page of u has run: u was fetched as HTML
\* with a depth label below max_depth
LinksFollowed(u) ==
    /\ u \in DOMAIN served
    /\ \E i \in DOMAIN fetch_log : fetch_log[i].url = u /\ fetch_log[i].depth < max_depth

\* C30: when every fetch succeeded and every page has at most LinkCap links,
\* a finished PythonScraper session has fetched every same-domain URL within
\* max_depth links of the seed and has followed the links of every fetched
\* HTML page less than max_depth links from the seed
C30_ShortestDistanceCoverage ==
    (/\ scraper = "python"
     /\ cpc = "done"
     /\ failed = {}
     /\ \A u \in DOMAIN served :
           Cardinality(py_extract_links_from_html(served[u], u)) <= LinkCap)
    => /\ \A u \in PyReachableWithin(max_depth) : u \in Fetched
       /\ max_depth > 0 =>
             \A u \in PyReachableWithin(max_depth - 1) \cap Fetched \cap DOMAIN served :
                LinksFollowed(u)
====
